---- MODULE Spec2Model ----
(***************************************************************************)
(* Dispatch engine of the outbound voice campaign platform: the scheduler, *)
(* the call/status/retry workers, the per-campaign concurrency limiter and *)
(* the statistics and attempt writers, for one in_progress campaign.       *)
(*                                                                         *)
(* A topic is modelled by its log (every message ever written), its queue  *)
(* (messages the consumer group still has to be handed: not yet fetched,   *)
(* or fetched and left uncommitted, which the broker hands out again) and  *)
(* the messages whose offset was committed.  Wall-clock time is abstracted:*)
(* a retry's next_attempt is reached when the retry worker takes its step. *)
(***************************************************************************)
EXTENDS Integers, Sequences, FiniteSets, Bags, TLC

\* ---------------------------------------------------------------- bounds
NumTargets == 1
MaxCalls == 3
MaxAttemptsBound == 3
MaxRetryTopics == 1
MaxLimit == 2
NumCallWorkers == 3
NumSchedulers == 2
MaxFaults == 1
MaxBatchSize == 2
MaxClock == 4

Targets == 1..NumTargets
CallIDs == 1..MaxCalls
Schedulers == 1..NumSchedulers

VARIABLES
    campaign,       \* the campaign row: MaxConcurrentCalls, RetryPolicy.MaxAttempts,
                    \* Status and the BusinessHours windows
    fleet,          \* the campaigns a tick ranges over where several are at stake:
                    \* their order of updated_at and, for each, its status and
                    \* the numbers of its pending and its queued targets
    loops,          \* the workers' loops: whether their context is cancelled, and
                    \* the workers whose Run has returned
    inflight,       \* the campaign operations of the API that have read the
                    \* campaign row and not yet written it
    now,            \* the current time in the campaign's time zone: weekday, minute
    clock,          \* the current instant (time.Now), in ticks since the start
    apiError,       \* the error the last API operation returned, "none" without one
    hoursCheck,     \* the answer of the last stand-alone isWithinBusinessHours call
    retryTopicCount,\* len(cfg.Kafka.RetryTopics)
    targets,        \* campaign_targets.state per target
    calls,          \* calls_by_campaign rows
    call_attempts,  \* call_attempts rows, by (call_id, attempt_number)
    stats,          \* campaign_statistics row
    active,         \* outbound:campaign:{id}:active counter in the throttle store
    ttlLeft,        \* ticks until that key expires; 0 while the counter is 0
    leak,           \* slots held by call workers that died, and the ticks since
    held,           \* successful Acquire calls of the call workers minus the
                    \* Release calls they issued
    dispatchTopic,  \* dispatch topic
    statusTopic,    \* status topic
    retryTopic,     \* retry.1 .. retry.N, messages tagged with their topic index
    waiting,        \* call workers inside waitForSlot, by their DispatchMessage
    calling,        \* call workers inside PlaceCall, by their DispatchMessage
    sched,          \* each scheduler process: position in tick, claimed batch
    writer,         \* one kafka.Writer: the bytes its balancer counted for each
                    \* partition, and the key and partition of each message
    faults          \* number of infrastructure errors and crashes so far

vars == <<campaign, fleet, loops, inflight, now, clock, apiError, hoursCheck, retryTopicCount, targets, calls, call_attempts, stats, active,
          ttlLeft, leak, held, writer,
          dispatchTopic, statusTopic, retryTopic, waiting, calling, sched, faults>>

\* ------------------------------------------------------------ topic helpers
One(m) == SetToBag({m})

EmptyTopic == [log |-> EmptyBag, queue |-> EmptyBag, committed |-> EmptyBag]

\* kafka.Writer.WriteMessages: the message is appended to the topic.
WriteMessages(topic, m) ==
    [topic EXCEPT !.log = @ (+) One(m), !.queue = @ (+) One(m)]

\* kafka.Reader.FetchMessage: the message is handed to the consumer.
FetchMessage(topic, m) == [topic EXCEPT !.queue = @ (-) One(m)]

\* kafka.Reader.CommitMessages: the offset of a fetched message is committed.
CommitMessages(topic, m) == [topic EXCEPT !.committed = @ (+) One(m)]

\* A fetched message whose offset was not committed is delivered again.
Redeliver(topic, m) == [topic EXCEPT !.queue = @ (+) One(m)]

\* The value of a message that is not JSON: raw bytes.
PoisonMessage == [raw |-> "garbage"]

\* json.Unmarshal of a message's value into a DispatchMessage, StatusMessage or
\* RetryMessage returns an error when the value is not the JSON of an object
\* with the types of the struct's fields; the values the writers of the
\* pipeline marshal are.
UnmarshalFails(m) == "raw" \in DOMAIN m

\* ------------------------------------------------------------ kafka writer
NumPartitions == 3
MaxWritten == 4
MaxMessageBytes == 2

Partitions == 0..(NumPartitions - 1)

\* Kafka.NewWriter: a writer with the LeastBytes balancer, nothing written yet.
NewWriter == [counters |-> [p \in Partitions |-> 0], written |-> <<>>]

\* kafka.LeastBytes.Balance: the first partition among those the writer has
\* sent the fewest bytes to; the message's key plays no part.
LeastBytes(counters) ==
    CHOOSE p \in Partitions :
        /\ \A q \in Partitions : counters[p] <= counters[q]
        /\ \A q \in Partitions : counters[q] = counters[p] => p <= q

\* kafka.Writer.WriteMessages of one message with the call id as Key: the
\* balancer picks the partition and counts the bytes of the message for it.
WriterPublish(key, bytes) ==
    LET p == LeastBytes(writer.counters)
    IN /\ Len(writer.written) < MaxWritten
       /\ writer' = [counters |-> [writer.counters EXCEPT ![p] = @ + bytes],
                     written |-> Append(writer.written,
                                        [key |-> key, partition |-> p])]
       /\ UNCHANGED <<campaign, now, apiError, hoursCheck, held, clock, fleet, loops, inflight, retryTopicCount, targets,
                      calls, call_attempts, stats, active, ttlLeft, leak,
                      dispatchTopic, statusTopic, retryTopic, waiting, calling,
                      sched, faults>>

\* ------------------------------------------------------------ messages
\* The retry policy of the campaigns of the pipeline, in ticks: the base delay
\* and the largest delay.
PolicyBaseDelay == 1
PolicyMaxDelay == 2

\* The campaign's id, and the payload of a target as the metadata of its calls.
CampaignID == "campaign"
Payload(phone) == <<"payload", phone>>

\* The DispatchMessage TriggerCall builds for the first attempt of call c.
DispatchMessage(c, phone, a) ==
    [call_id |-> c, campaign_id |-> CampaignID, phone_number |-> phone,
     attempt |-> a,
     max_attempts |-> campaign.MaxAttempts,
     retry_base_ms |-> campaign.BaseDelay,
     retry_max_ms |-> campaign.MaxDelay,
     retry_jitter |-> campaign.Jitter,
     concurrency_limit |-> campaign.MaxConcurrentCalls,
     metadata |-> Payload(phone)]

\* ------------------------------------------------------------ statistics
ZeroDelta == [total |-> 0, completed |-> 0, failed |-> 0,
              in_progress |-> 0, pending |-> 0, retries |-> 0]

ApplyDelta(s, d) == [k \in DOMAIN s |-> s[k] + d[k]]

\* ------------------------------------------------------------ limiter
\* Acquire with the comparison of the script off by one.
AcquireAtLimit(current, limit) ==
    IF current <= limit
    THEN [acquired |-> TRUE, value |-> current + 1]
    ELSE [acquired |-> FALSE, value |-> current]

\* Limiter.Acquire: the script on the counter, its answer and the new counter.
Acquire(current, limit) ==
    IF current < limit
    THEN [acquired |-> TRUE, value |-> current + 1]
    ELSE [acquired |-> FALSE, value |-> current]

\* Release with the check of the counter left out.
ReleaseUnchecked(current) == current - 1

\* Limiter.Release: the script on the counter; a counter at 0 is deleted.
Release(current) == IF current <= 0 THEN 0 ELSE current - 1

\* The life of the counter's key in ticks of the clock (Limiter.ttl).
TTLTicks == 2

\* The script of Acquire sets the key's expiry to the TTL when, and only when,
\* it increments the counter.
Expiry(got, ttl) == IF got.acquired THEN TTLTicks ELSE ttl

\* The script of Release does not touch the expiry; a counter at 0 reads as a
\* missing key, whose expiry is of no effect.
ExpiryAfterRelease(value, ttl) == IF value = 0 THEN 0 ELSE ttl

NoLeak == [slots |-> 0, age |-> 0]

NoCall == [phone_number |-> 0, origin |-> "none", status |-> "none", attempt_count |-> 0]

\* ------------------------------------------------------------ business hours
MinutesPerDay == 1440
DaysPerWeek == 7

\* A BusinessHourWindow: its weekday (Sunday = 0) and the minutes of the day of
\* its Start and End.
Window(day, start, end) == [DayOfWeek |-> day, Start |-> start, End |-> end]

\* The loop over the windows with every window taken as a same-day window.
AnySameDayWindowFrom(t, windows, i) ==
    \E j \in i..Len(windows) :
        /\ windows[j].DayOfWeek = t.weekday
        /\ t.minute >= windows[j].Start /\ t.minute < windows[j].End

\* The loop of isWithinBusinessHours over the windows, from the i-th on.
RECURSIVE AnyWindowFrom(_, _, _)
AnyWindowFrom(t, windows, i) ==
    IF i > Len(windows) THEN FALSE
    ELSE LET window == windows[i]
             nextDay == (window.DayOfWeek + 1) % DaysPerWeek
         IN IF window.End <= window.Start
            THEN IF window.DayOfWeek = t.weekday /\ t.minute >= window.Start
                 THEN TRUE
                 ELSE IF nextDay = t.weekday /\ t.minute < window.End
                      THEN TRUE
                      ELSE AnyWindowFrom(t, windows, i + 1)
            ELSE IF window.DayOfWeek # t.weekday
                 THEN AnyWindowFrom(t, windows, i + 1)
                 ELSE IF t.minute >= window.Start /\ t.minute < window.End
                      THEN TRUE
                      ELSE AnyWindowFrom(t, windows, i + 1)

\* isWithinBusinessHours with every campaign always open.
AlwaysWithinBusinessHours(t, c) == TRUE

\* isWithinBusinessHours, t being nowUTC in the campaign's time zone.
isWithinBusinessHours(t, c) ==
    IF Len(c.BusinessHours) = 0 THEN TRUE
    ELSE AnyWindowFrom(t, c.BusinessHours, 1)

\* Monday 09:00-17:00, and Monday 10:00 (inside it), Monday 20:00 (outside).
OfficeHours == <<Window(1, 9 * 60, 17 * 60)>>
MondayMorning == [weekday |-> 1, minute |-> 10 * 60]
MondayNight == [weekday |-> 1, minute |-> 20 * 60]

\* ------------------------------------------------------------ initial state
\* Every worker's Run is in its loop, under a context that is not cancelled.
AllRunning == [cancelled |-> FALSE, stopped |-> {}]

\* No campaign but the one of the campaign row.
NoFleet == [order |-> <<>>, rows |-> <<>>]

\* The empty pipeline: no call, no message, no fault.
InitEngine ==
    /\ loops = AllRunning
    /\ inflight = {}
    /\ apiError = "none"
    /\ hoursCheck = "none"
    /\ retryTopicCount \in 1..MaxRetryTopics
    /\ targets = [t \in Targets |-> "pending"]
    /\ calls = [c \in CallIDs |-> NoCall]
    /\ call_attempts = {}
    /\ stats = ZeroDelta
    /\ active = 0
    /\ ttlLeft = 0
    /\ leak = NoLeak
    /\ held = 0
    /\ dispatchTopic = EmptyTopic
    /\ statusTopic = EmptyTopic
    /\ retryTopic = EmptyTopic
    /\ waiting = EmptyBag
    /\ calling = EmptyBag
    /\ sched = [s \in Schedulers |-> [pc |-> "idle", batch |-> {}]]
    /\ faults = 0
    /\ writer = NewWriter
    /\ clock = 0

\* Everything but the campaign row and the clock.
InitPipeline ==
    /\ fleet = NoFleet
    /\ InitEngine

\* A campaign was created (status pending) with its targets registered.
Init ==
    /\ campaign \in [MaxConcurrentCalls : 1..MaxLimit,
                      MaxAttempts : 1..MaxAttemptsBound,
                      BaseDelay : {PolicyBaseDelay}, MaxDelay : {PolicyMaxDelay},
                      Jitter : {0},
                      Status : {"pending"}, StartedAt : {<<>>},
                      BusinessHours : {OfficeHours}]
    /\ now = MondayMorning
    /\ InitPipeline

\* The window lists and times isWithinBusinessHours is evaluated on: no window,
\* same-day windows, windows over midnight (Saturday's runs into Sunday), a
\* window with End = Start, one ending at 00:00, and lists of two windows.
NightShift == <<Window(1, 22 * 60, 2 * 60)>>
HourLists ==
    { <<>>, OfficeHours, NightShift,
      <<Window(6, 22 * 60, 2 * 60)>>,
      <<Window(2, 2 * 60, 2 * 60)>>,
      <<Window(5, 18 * 60, 0)>>,
      <<Window(1, 9 * 60, 17 * 60), Window(3, 22 * 60, 2 * 60)>>,
      <<Window(6, 23 * 60, 60), Window(0, 30, 45)>> }
AllTimes == [weekday : 0..(DaysPerWeek - 1), minute : 0..(MinutesPerDay - 1)]

\* A campaign with one of the window lists, at any minute of the week.
InitHours ==
    /\ campaign \in [MaxConcurrentCalls : {1}, MaxAttempts : {1},
                      BaseDelay : {PolicyBaseDelay}, MaxDelay : {PolicyMaxDelay},
                      Jitter : {0},
                      Status : {"pending"}, StartedAt : {<<>>}, BusinessHours : HourLists]
    /\ now \in AllTimes
    /\ InitPipeline

\* isWithinBusinessHours called on the campaign at the current time.
CheckBusinessHours ==
    /\ hoursCheck = "none"
    /\ hoursCheck' = IF isWithinBusinessHours(now, campaign) THEN "within"
                     ELSE "outside"
    /\ UNCHANGED <<campaign, now, apiError, ttlLeft, leak, writer, held, clock, fleet, loops, inflight, retryTopicCount, targets, calls,
                   call_attempts, stats, active, dispatchTopic, statusTopic,
                   retryTopic, waiting, calling, sched, faults>>

\* ------------------------------------------------------------ campaign service
\* The business hours of a request as parseBusinessHours hands them over: start
\* and end are times of day parsed with the layout "15:04", so both lie on the
\* same date and compare as their minutes of the day.
InputMinutes == {0, 2 * 60, 9 * 60, 17 * 60, 22 * 60}
HourInputs ==
    {<<>>} \cup {<<Window(day, start, end)>> :
                     day \in {1, 6}, start \in InputMinutes, end \in InputMinutes}

\* validateCreateInput, the loop over the business hours: End.After(Start).
validateCreateInput(windows) ==
    IF \E i \in 1..Len(windows) : ~(windows[i].End > windows[i].Start)
    THEN "validation" ELSE "none"

\* BusinessHourRepository.Replace in its transaction: the rows are replaced
\* unless an INSERT breaks CHECK (end_minute > start_minute), which rolls the
\* transaction back and leaves the stored windows as they were.
Replace(stored, windows) ==
    IF \E i \in 1..Len(windows) : ~(windows[i].End > windows[i].Start)
    THEN [windows |-> stored, err |-> "internal"]
    ELSE [windows |-> windows, err |-> "none"]

\* No campaign was created yet.
InitCreate ==
    /\ campaign \in [MaxConcurrentCalls : {1}, MaxAttempts : {1},
                      BaseDelay : {PolicyBaseDelay}, MaxDelay : {PolicyMaxDelay},
                      Jitter : {0},
                      Status : {"none"}, StartedAt : {<<>>}, BusinessHours : {<<>>}]
    /\ now \in {MondayMorning, MondayNight,
                [weekday |-> 1, minute |-> 23 * 60],
                [weekday |-> 2, minute |-> 60]}
    /\ InitPipeline

\* campaignRecord.toDomain, by which CampaignRepository.Get hands out the row:
\* it copies the columns of the campaign but none of the timestamps, so
\* StartedAt is nil in every campaign that was read.
toDomain(row) == [row EXCEPT !.StartedAt = <<>>]

\* CampaignRepository.Update: one UPDATE that sets every column of the row,
\* status and started_at included, from the campaign it is given; the business
\* hours are rows of another table.
RepoUpdate(row, c) ==
    [row EXCEPT !.Status = c.Status,
                !.MaxConcurrentCalls = c.MaxConcurrentCalls,
                !.MaxAttempts = c.MaxAttempts,
                !.BaseDelay = c.BaseDelay,
                !.MaxDelay = c.MaxDelay,
                !.Jitter = c.Jitter,
                !.StartedAt = c.StartedAt]

\* Service.Create with the business hours of the request: a request that fails
\* validateCreateInput creates nothing; otherwise the campaign row is inserted
\* (pending) and its windows are stored.
CreateCampaign(windows) ==
    /\ campaign.Status = "none"
    /\ IF validateCreateInput(windows) # "none"
       THEN /\ apiError' = validateCreateInput(windows)
            /\ campaign' = campaign
       ELSE /\ apiError' = Replace(<<>>, windows).err
            /\ campaign' = [campaign EXCEPT
                                !.Status = "pending",
                                !.BusinessHours = Replace(<<>>, windows).windows]
    /\ UNCHANGED <<now, hoursCheck, held, clock, fleet, loops, inflight, retryTopicCount, targets, calls, call_attempts,
                   stats, active, ttlLeft, leak, dispatchTopic, statusTopic,
                   retryTopic, waiting, calling, sched, writer, faults>>

\* Service.Update with new business hours: no validation, the windows go to
\* BusinessHourRepository.Replace.
UpdateCampaign(windows) ==
    /\ campaign.Status # "none"
    /\ apiError' = Replace(campaign.BusinessHours, windows).err
    /\ campaign' = [RepoUpdate(campaign, toDomain(campaign)) EXCEPT
                        !.BusinessHours = Replace(campaign.BusinessHours, windows).windows]
    /\ UNCHANGED <<now, hoursCheck, held, clock, fleet, loops, inflight, retryTopicCount, targets, calls, call_attempts,
                   stats, active, ttlLeft, leak, dispatchTopic, statusTopic,
                   retryTopic, waiting, calling, sched, writer, faults>>

\* The campaign as Service.Start hands it to the repository.
Started(c) == [c EXCEPT !.Status = "in_progress", !.StartedAt = <<now>>]

\* Service.Start
StartCampaign ==
    /\ campaign' = IF campaign.Status \in {"in_progress", "completed"} THEN campaign
                   ELSE RepoUpdate(campaign, Started(toDomain(campaign)))
    /\ apiError' = IF campaign.Status = "completed" THEN "conflict" ELSE "none"
    /\ UNCHANGED <<now, hoursCheck, ttlLeft, leak, writer, held, clock, fleet, loops, inflight, retryTopicCount, targets, calls, call_attempts,
                   stats, active, dispatchTopic, statusTopic, retryTopic, waiting,
                   calling, sched, faults>>

\* Service.Pause
PauseCampaign ==
    /\ campaign' = RepoUpdate(campaign, [toDomain(campaign) EXCEPT !.Status = "paused"])
    /\ apiError' = "none"
    /\ UNCHANGED <<now, hoursCheck, ttlLeft, leak, writer, held, clock, fleet, loops, inflight, retryTopicCount, targets, calls, call_attempts,
                   stats, active, dispatchTopic, statusTopic, retryTopic, waiting,
                   calling, sched, faults>>

\* Service.Complete
CompleteCampaign ==
    /\ campaign' = RepoUpdate(campaign,
                              [toDomain(campaign) EXCEPT !.Status = "completed"])
    /\ apiError' = "none"
    /\ UNCHANGED <<now, hoursCheck, ttlLeft, leak, writer, held, clock, fleet, loops, inflight, retryTopicCount, targets, calls, call_attempts,
                   stats, active, dispatchTopic, statusTopic, retryTopic, waiting,
                   calling, sched, faults>>

\* The campaign operations of the API as two steps each, with other operations
\* in between: at most MaxInflight of them have read the row and not written it.
MaxInflight == 2

OpKinds == {"start", "pause", "complete", "update"}

\* The first half of Service.Start, Pause, Complete and Update: repo.Get.
\* Start returns after it when the campaign is in_progress or completed; an
\* Update carries the new value of max_concurrent_calls.
ApiBegin(kind, limit) ==
    /\ campaign.Status # "none"
    /\ Cardinality(inflight) < MaxInflight
    /\ kind = "start" => campaign.Status \notin {"in_progress", "completed"}
    /\ kind # "update" => limit = campaign.MaxConcurrentCalls
    /\ inflight' = inflight \cup {[kind |-> kind, limit |-> limit,
                                    read |-> toDomain(campaign)]}
    /\ UNCHANGED <<campaign, fleet, loops, now, clock, apiError, hoursCheck,
                   ttlLeft, leak, writer, held, retryTopicCount, targets, calls,
                   call_attempts, stats, active, dispatchTopic, statusTopic,
                   retryTopic, waiting, calling, sched, faults>>

\* The campaign an operation hands to repo.Update: the one it read, changed in
\* the fields the operation is about.
Changed(o) ==
    CASE o.kind = "start" -> Started(o.read)
      [] o.kind = "pause" -> [o.read EXCEPT !.Status = "paused"]
      [] o.kind = "complete" -> [o.read EXCEPT !.Status = "completed"]
      [] OTHER -> [o.read EXCEPT !.MaxConcurrentCalls = o.limit]

\* The second half of the operation: repo.Update.
ApiCommit(o) ==
    /\ o \in inflight
    /\ inflight' = inflight \ {o}
    /\ campaign' = RepoUpdate(campaign, Changed(o))
    /\ UNCHANGED <<fleet, loops, now, clock, apiError, hoursCheck, ttlLeft, leak,
                   writer, held, retryTopicCount, targets, calls, call_attempts,
                   stats, active, dispatchTopic, statusTopic, retryTopic, waiting,
                   calling, sched, faults>>

\* Time passes: the campaign's local time becomes t.
ClockAdvance(t) ==
    /\ t # now
    /\ now' = t
    /\ UNCHANGED <<campaign, apiError, hoursCheck, ttlLeft, leak, writer, held, clock, fleet, loops, inflight, retryTopicCount, targets, calls,
                   call_attempts, stats, active, dispatchTopic, statusTopic,
                   retryTopic, waiting, calling, sched, faults>>

\* ------------------------------------------------------------ TriggerCall
TriggerOutcomes == {"ok", "create_err", "stats_err", "dispatch_err"}

NextCallID(rows) == Cardinality({c \in CallIDs : rows[c].status # "none"}) + 1

\* The phone numbers a request can carry: a target's number (targets are
\* identified with their numbers), the empty string, and a number of no target.
EmptyPhone == 0
UnregisteredPhone == NumTargets + 1
Phones == Targets \cup {EmptyPhone, UnregisteredPhone}

\* Service.TriggerCall after its validation: the Call row, the counters and the
\* dispatch message, on the stores and the dispatch topic given in st; outcome
\* names the step that fails, if any.
CreateAndEnqueue(st, phone, origin, outcome) ==
    LET id == NextCallID(st.calls)
        row == [phone_number |-> phone, origin |-> origin,
                status |-> "queued", attempt_count |-> 0]
        created == [ZeroDelta EXCEPT !.total = 1, !.pending = 1]
        reverted == [ZeroDelta EXCEPT !.pending = -1]
    IN [calls |-> IF outcome = "create_err" THEN st.calls
                  ELSE [st.calls EXCEPT ![id] = row],
        stats |-> CASE outcome = "ok" -> ApplyDelta(st.stats, created)
                    [] outcome = "dispatch_err" ->
                           ApplyDelta(ApplyDelta(st.stats, created), reverted)
                    [] OTHER -> st.stats,
        dispatch |-> IF outcome = "ok"
                     THEN WriteMessages(st.dispatch, DispatchMessage(id, phone, 1))
                     ELSE st.dispatch,
        err |-> IF outcome = "ok" THEN "none" ELSE "internal"]

\* Service.validatePhoneInCampaignTargets: ListByCampaign without a state
\* filter, then the search of the phone number in the rows.
validatePhoneInCampaignTargets(rows, phone) ==
    IF DOMAIN rows = {} \/ phone \notin DOMAIN rows THEN "validation" ELSE "none"

\* TriggerCall that creates and enqueues whatever phone number it is given.
TriggerCallUnvalidated(st, phone, origin, outcome) ==
    CreateAndEnqueue(st, phone, origin, outcome)

\* Service.TriggerCall: the empty phone number is rejected first, then the
\* campaign and its targets are looked up (outcome "lookup_err": a lookup
\* fails) and a phone number of no target is rejected; nothing is written
\* before these checks.
TriggerCall(st, phone, origin, outcome) ==
    LET rejected(e) == [calls |-> st.calls, stats |-> st.stats,
                        dispatch |-> st.dispatch, err |-> e]
    IN CASE phone = EmptyPhone -> rejected("validation")
         [] phone # EmptyPhone /\ outcome = "lookup_err" -> rejected("internal")
         [] phone # EmptyPhone /\ outcome # "lookup_err"
            /\ validatePhoneInCampaignTargets(targets, phone) # "none" ->
                rejected("validation")
         [] OTHER -> CreateAndEnqueue(st, phone, origin, outcome)

Stores == [calls |-> calls, stats |-> stats, dispatch |-> dispatchTopic]

FaultCount(outcomes) == Cardinality({x \in DOMAIN outcomes : outcomes[x] # "ok"})

\* The steps of TriggerCall that can fail for a request with this phone number.
ApiOutcomes(phone) ==
    CASE phone = EmptyPhone -> {"ok"}
      [] phone \in Targets -> TriggerOutcomes \cup {"lookup_err"}
      [] OTHER -> {"ok", "lookup_err"}

\* HandlerSet.triggerCall: one request with this phone number.
ApiTriggerCallFor(phone, outcome) ==
    LET st == TriggerCall(Stores, phone, "api", outcome)
    IN /\ outcome \in ApiOutcomes(phone)
       /\ NextCallID(calls) <= MaxCalls
       /\ outcome # "ok" => faults < MaxFaults
       /\ faults' = IF outcome = "ok" THEN faults ELSE faults + 1
       /\ calls' = st.calls
       /\ stats' = st.stats
       /\ dispatchTopic' = st.dispatch
       /\ apiError' = st.err
       /\ UNCHANGED <<campaign, now, hoursCheck, ttlLeft, leak, writer, held, clock, fleet, loops, inflight, retryTopicCount, targets,
                      call_attempts, active, statusTopic, retryTopic, waiting,
                      calling, sched>>

\* The HTTP trigger: TriggerCall outside any scheduler tick.
ApiTriggerCall ==
    \E phone \in Phones, outcome \in TriggerOutcomes \cup {"lookup_err"} :
        ApiTriggerCallFor(phone, outcome)

\* ------------------------------------------------------------ scheduler
\* hasPendingRetries: a reader of a group that never commits fetches from the
\* first offset with a 200 ms deadline; it finds a message only if the topic has
\* one, and the deadline may pass before it is handed over.
hasPendingRetries ==
    IF retryTopic.log = EmptyBag THEN {FALSE} ELSE {TRUE, FALSE}

Min(S) == CHOOSE x \in S : \A y \in S : x <= y

\* The first n targets of S in created_at order.
RECURSIVE FirstN(_, _)
FirstN(S, n) ==
    IF n = 0 \/ S = {} THEN {}
    ELSE {Min(S)} \cup FirstN(S \ {Min(S)}, n - 1)

\* CampaignTargetRepository.NextBatchForScheduling
NextBatchForScheduling(limit) ==
    FirstN({t \in Targets : targets[t] = "pending"}, limit)

\* CampaignTargetRepository.MarkScheduled
MarkScheduled(rows, ids) ==
    [t \in Targets |-> IF t \in ids THEN "queued" ELSE rows[t]]

\* The loop of Scheduler.tick over the claimed targets, in order.
RECURSIVE TriggerBatch(_, _, _)
TriggerBatch(st, batch, outcomes) ==
    IF batch = {} THEN st
    ELSE TriggerBatch(TriggerCall(st, Min(batch), "scheduler", outcomes[Min(batch)]),
                      batch \ {Min(batch)}, outcomes)

\* A tick of Scheduler.tick that does nothing for the campaign: hasPendingRetries
\* answers true and the tick returns, or ListByStatus(in_progress) does not
\* return the campaign, or the campaign is outside its business hours.
SchedulerSkip(s) ==
    /\ sched[s].pc = "idle"
    /\ \/ \E has \in hasPendingRetries : has
       \/ campaign.Status # "in_progress"
       \/ ~isWithinBusinessHours(now, campaign)
    /\ sched' = [sched EXCEPT ![s] = [pc |-> "skipped", batch |-> {}]]
    /\ UNCHANGED <<campaign, now, apiError, hoursCheck, ttlLeft, leak, writer, held, clock, fleet, loops, inflight, retryTopicCount, targets, calls, call_attempts, stats,
                   active, dispatchTopic, statusTopic, retryTopic, waiting, calling,
                   faults>>

\* Scheduler.tick up to the SELECT of the pending targets.
SchedulerSelect(s) ==
    /\ sched[s].pc \in {"idle", "skipped"}
    /\ \E has \in hasPendingRetries : ~has
    /\ campaign.Status = "in_progress"
    /\ isWithinBusinessHours(now, campaign)
    /\ NextBatchForScheduling(MaxBatchSize) # {}
    /\ sched' = [sched EXCEPT ![s] = [pc |-> "selected",
                                      batch |-> NextBatchForScheduling(MaxBatchSize)]]
    /\ UNCHANGED <<campaign, now, apiError, hoursCheck, ttlLeft, leak, writer, held, clock, fleet, loops, inflight, retryTopicCount, targets, calls, call_attempts, stats,
                   active, dispatchTopic, statusTopic, retryTopic, waiting, calling,
                   faults>>

\* SetState that leaves the rows as they are.
SetStateKeep(rows, ids, state) == rows

\* CampaignTargetRepository.SetState
SetState(rows, ids, state) ==
    [t \in Targets |-> IF t \in ids THEN state ELSE rows[t]]

\* Scheduler.tick from MarkScheduled on: the UPDATE that marks the selected
\* targets queued, TriggerCall for each of them, and SetState(pending) for the
\* targets whose trigger failed; outcomes names the failing step of each
\* TriggerCall, if any.
SchedulerDispatchWith(s, outcomes) ==
    /\ sched[s].pc = "selected"
    /\ LET batch == sched[s].batch
           st == TriggerBatch(Stores, batch, outcomes)
           failed == {t \in batch : outcomes[t] # "ok"}
       IN /\ NextCallID(calls) + Cardinality(batch) - 1 <= MaxCalls
          /\ faults + FaultCount(outcomes) <= MaxFaults
          /\ faults' = faults + FaultCount(outcomes)
          /\ targets' = SetState(MarkScheduled(targets, batch), failed, "pending")
          /\ calls' = st.calls
          /\ stats' = st.stats
          /\ dispatchTopic' = st.dispatch
    /\ sched' = [sched EXCEPT ![s] = [pc |-> "idle", batch |-> {}]]
    /\ UNCHANGED <<campaign, now, apiError, hoursCheck, ttlLeft, leak, writer,
                   held, clock, fleet, loops, inflight, retryTopicCount, call_attempts, active, statusTopic,
                   retryTopic, waiting, calling>>

\* Scheduler.tick when MarkScheduled fails: the tick goes on to the next
\* campaign.
SchedulerMarkFails(s) ==
    /\ sched[s].pc = "selected"
    /\ faults < MaxFaults
    /\ faults' = faults + 1
    /\ sched' = [sched EXCEPT ![s] = [pc |-> "idle", batch |-> {}]]
    /\ UNCHANGED <<campaign, now, apiError, hoursCheck, ttlLeft, leak, writer,
                   held, clock, fleet, loops, inflight, retryTopicCount, targets, calls, call_attempts, stats, active,
                   dispatchTopic, statusTopic, retryTopic, waiting, calling>>

\* Scheduler.tick cut short after MarkScheduled: the process dies, or its
\* context is cancelled, with which every later TriggerCall and the SetState of
\* the failed targets return the context's error.  The targets in done were
\* triggered before; the others stay as MarkScheduled left them.
SchedulerInterrupted(s, done) ==
    /\ sched[s].pc = "selected"
    /\ done \subseteq sched[s].batch /\ done # sched[s].batch
    /\ LET st == TriggerBatch(Stores, done, [t \in done |-> "ok"])
       IN /\ NextCallID(calls) + Cardinality(done) - 1 <= MaxCalls
          /\ faults < MaxFaults
          /\ faults' = faults + 1
          /\ targets' = MarkScheduled(targets, sched[s].batch)
          /\ calls' = st.calls
          /\ stats' = st.stats
          /\ dispatchTopic' = st.dispatch
    /\ sched' = [sched EXCEPT ![s] = [pc |-> "idle", batch |-> {}]]
    /\ UNCHANGED <<campaign, now, apiError, hoursCheck, ttlLeft, leak, writer,
                   held, clock, fleet, loops, inflight, retryTopicCount, call_attempts,
                   active, statusTopic, retryTopic, waiting, calling>>

\* Scheduler.tick from MarkScheduled on.
SchedulerDispatch(s) ==
    \/ \E outcomes \in [sched[s].batch -> TriggerOutcomes] :
           SchedulerDispatchWith(s, outcomes)
    \/ SchedulerMarkFails(s)

\* ------------------------------------------------------------ scheduler, fleet
\* Scheduler.tick over several campaigns, none with business hours (so each is
\* inside its window at any time), each with a number of pending targets.
NumCampaigns == 3
FetchLimit == 2
MaxFleetTargets == 2

Campaigns == 1..NumCampaigns

\* CampaignRepository.ListByStatus: the campaigns with the status in the order
\* of updated_at, the first limit of them.
ListByStatus(fl, status, limit) ==
    LET matching == SelectSeq(fl.order, LAMBDA c : fl.rows[c].status = status)
    IN SubSeq(matching, 1, IF Len(matching) < limit THEN Len(matching) ELSE limit)

\* The campaigns of a list.
Listed(list) == {list[i] : i \in 1..Len(list)}

\* What happens to a campaign of the list in a tick: nothing fails, or the
\* load of its business hours in Service.ListByStatus, NextBatchForScheduling,
\* MarkScheduled or the TriggerCall of its targets fails.
TickOutcomes == {"ok", "hours_err", "fetch_err", "mark_err", "trigger_err"}

\* Scheduler.tick: Service.ListByStatus returns the in_progress campaigns with
\* their business hours, or an error if the load of any campaign's hours fails,
\* on which the tick returns; the loop then claims a batch of each campaign,
\* going on to the next campaign when a step fails (targets whose trigger
\* failed are pending again).
SchedulerTickWith(outcomes) ==
    LET ids == Listed(ListByStatus(fleet, "in_progress", FetchLimit))
        batch(c) == IF fleet.rows[c].pending < MaxBatchSize
                    THEN fleet.rows[c].pending ELSE MaxBatchSize
    IN /\ fleet # NoFleet
       /\ DOMAIN outcomes = ids
       /\ faults + FaultCount(outcomes) <= MaxFaults
       /\ faults' = faults + FaultCount(outcomes)
       /\ fleet' = IF \E c \in ids : outcomes[c] = "hours_err"
                   THEN fleet
                   ELSE [fleet EXCEPT !.rows =
                            [c \in Campaigns |->
                                IF c \in ids /\ outcomes[c] = "ok"
                                THEN [fleet.rows[c] EXCEPT
                                          !.pending = @ - batch(c),
                                          !.queued = @ + batch(c)]
                                ELSE fleet.rows[c]]]
       /\ UNCHANGED <<campaign, now, clock, apiError, hoursCheck, ttlLeft, leak,
                      writer, held, loops, inflight, retryTopicCount, targets, calls,
                      call_attempts, stats, active, dispatchTopic, statusTopic,
                      retryTopic, waiting, calling, sched>>

\* Scheduler.tick for any outcome of its steps.
SchedulerTick ==
    \E outcomes \in [Listed(ListByStatus(fleet, "in_progress", FetchLimit))
                        -> TickOutcomes] :
        SchedulerTickWith(outcomes)

\* An UPDATE of the campaign's row (Service.Update): the trigger of the table
\* sets updated_at to the current time, which makes the campaign the last in
\* the order of updated_at.
FleetUpdate(c) ==
    /\ fleet # NoFleet
    /\ fleet.order[Len(fleet.order)] # c
    /\ fleet' = [fleet EXCEPT
                    !.order = Append(SelectSeq(fleet.order, LAMBDA x : x # c), c)]
    /\ UNCHANGED <<campaign, now, clock, apiError, hoursCheck, ttlLeft, leak,
                   writer, held, loops, inflight, retryTopicCount, targets, calls, call_attempts,
                   stats, active, dispatchTopic, statusTopic, retryTopic,
                   waiting, calling, sched, faults>>

\* ------------------------------------------------------------ call worker
\* telephony.Provider.PlaceCall: the Result and whether an error is returned.
\* The mock provider returns the first four; a provider whose transport fails
\* returns the zero Result with an error, or a Result that names the error and
\* that it does not hold for retryable.
ProviderResults ==
    { [status |-> "completed", retryable |-> FALSE, error |-> FALSE, callErr |-> FALSE],
      [status |-> "failed", retryable |-> TRUE, error |-> TRUE, callErr |-> FALSE],
      [status |-> "failed", retryable |-> FALSE, error |-> TRUE, callErr |-> FALSE],
      [status |-> "failed", retryable |-> TRUE, error |-> TRUE, callErr |-> TRUE],
      [status |-> "", retryable |-> FALSE, error |-> FALSE, callErr |-> TRUE],
      [status |-> "failed", retryable |-> FALSE, error |-> TRUE, callErr |-> TRUE] }

\* The retryable flag without the cap of max_attempts.
StatusRetryableUncapped(dispatch, result) ==
    IF result.callErr /\ ~result.error THEN TRUE ELSE result.retryable

\* Whether the StatusMessage of a dispatch is retryable.
StatusRetryable(dispatch, result) ==
    IF result.callErr /\ ~result.error
    THEN dispatch.attempt < dispatch.max_attempts
    ELSE result.retryable /\ dispatch.attempt < dispatch.max_attempts

\* time.Duration is a signed integer of DurationBits bits (64 in the code) whose
\* arithmetic wraps around.
DurationBits == 8

RECURSIVE Pow2(_)
Pow2(n) == IF n = 0 THEN 1 ELSE 2 * Pow2(n - 1)

Wrap(x) ==
    ((x + Pow2(DurationBits - 1)) % Pow2(DurationBits)) - Pow2(DurationBits - 1)

\* The delays computeNextAttempt falls back to, in ticks of one second.
DefaultBaseDelay == 2
DefaultMaxDelay == 120

\* The amounts the jitter of computeNextAttempt can add to a delay: the delay
\* times a fraction drawn from [-jitter/2, jitter/2), the jitter being given in
\* percent; nothing without jitter.
Jitters(delay, jitter) ==
    IF jitter > 0
    THEN {j \in -Pow2(DurationBits - 1)..Pow2(DurationBits - 1) :
              /\ 200 * j >= -(delay * jitter) /\ 200 * j <= delay * jitter}
    ELSE {0}

\* The delay of computeNextAttempt before the jitter.
BackoffDelay(msg) ==
    LET base == IF msg.retry_base_ms <= 0 THEN DefaultBaseDelay
                ELSE msg.retry_base_ms
        maxDelay == IF msg.retry_max_ms <= 0 THEN DefaultMaxDelay
                    ELSE msg.retry_max_ms
        delay == Wrap(Pow2(msg.attempt - 1) * base)
    IN IF delay > maxDelay THEN maxDelay ELSE delay

\* The delay of computeNextAttempt, jitter being the amount the jitter adds.
RetryDelay(msg, jitter) ==
    LET base == IF msg.retry_base_ms <= 0 THEN DefaultBaseDelay
                ELSE msg.retry_base_ms
        delay == BackoffDelay(msg)
    IN IF msg.retry_jitter > 0
       THEN IF Wrap(delay + jitter) < base THEN base ELSE Wrap(delay + jitter)
       ELSE delay

\* computeNextAttempt: time.Now().UTC().Add(delay).
computeNextAttempt(msg, jitter) == clock + RetryDelay(msg, jitter)

\* The StatusMessage processMessage builds from the provider's result;
\* next_attempt is a pointer, <<>> when it is nil.
StatusMessage(dispatch, result, jitter) ==
    [call_id |-> dispatch.call_id,
     campaign_id |-> dispatch.campaign_id,
     phone_number |-> dispatch.phone_number,
     attempt |-> dispatch.attempt,
     max_attempts |-> dispatch.max_attempts,
     retry_base_ms |-> dispatch.retry_base_ms,
     retry_max_ms |-> dispatch.retry_max_ms,
     retry_jitter |-> dispatch.retry_jitter,
     concurrency_limit |-> dispatch.concurrency_limit,
     metadata |-> dispatch.metadata,
     status |-> IF result.callErr /\ ~result.error THEN "failed" ELSE result.status,
     retryable |-> StatusRetryable(dispatch, result),
     next_attempt |-> IF StatusRetryable(dispatch, result)
                      THEN <<computeNextAttempt(dispatch, jitter)>>
                      ELSE <<>>]

BusyCallWorkers == BagCardinality(waiting) + BagCardinality(calling)

\* waitForSlot returns without a release function, and without calling Acquire,
\* for a dispatch whose limit and the configured default limit are both <= 0.
Skipped(m) == m.concurrency_limit <= 0

\* Worker.Run fetches a dispatch and processMessage makes the first Acquire of
\* waitForSlot: with a slot, or with the acquisition skipped, the worker goes on
\* to PlaceCall; without a slot it sleeps in the loop of waitForSlot.
CallWorkerFetch ==
    \E m \in BagToSet(dispatchTopic.queue) :
        LET got == Acquire(active, m.concurrency_limit)
        IN /\ ~UnmarshalFails(m)
           /\ BusyCallWorkers < NumCallWorkers
           /\ dispatchTopic' = FetchMessage(dispatchTopic, m)
           /\ IF Skipped(m)
              THEN /\ calling' = calling (+) One(m)
                   /\ UNCHANGED <<active, ttlLeft, held, waiting>>
              ELSE /\ active' = got.value
                   /\ ttlLeft' = Expiry(got, ttlLeft)
                   /\ held' = IF got.acquired THEN held + 1 ELSE held
                   /\ IF got.acquired
                      THEN calling' = calling (+) One(m) /\ waiting' = waiting
                      ELSE waiting' = waiting (+) One(m) /\ calling' = calling
           /\ UNCHANGED <<campaign, now, apiError, hoursCheck, leak, writer,
                          clock, fleet, loops, inflight, retryTopicCount, targets, calls, call_attempts, stats,
                          statusTopic, retryTopic, sched, faults>>

\* One more round of the loop of waitForSlot: Acquire succeeds, or the throttle
\* store fails and processMessage returns without committing.
CallWorkerWaitForSlot ==
    \E m \in BagToSet(waiting) :
        \/ LET got == Acquire(active, m.concurrency_limit)
           IN /\ got.acquired
              /\ active' = got.value
              /\ ttlLeft' = Expiry(got, ttlLeft)
              /\ held' = held + 1
              /\ waiting' = waiting (-) One(m)
              /\ calling' = calling (+) One(m)
              /\ UNCHANGED <<dispatchTopic, faults>>
        \/ /\ faults < MaxFaults
           /\ faults' = faults + 1
           /\ waiting' = waiting (-) One(m)
           /\ dispatchTopic' = Redeliver(dispatchTopic, m)
           /\ UNCHANGED <<active, ttlLeft, held, calling>>
    /\ UNCHANGED <<campaign, now, apiError, hoursCheck, leak, writer,
                   clock, fleet, loops, inflight, retryTopicCount, targets, calls, call_attempts, stats,
                   statusTopic, retryTopic, sched>>

CallWorkerOutcomes == {"ok", "publish_err", "commit_err", "release_err", "crash"}

\* The deferred release that is dropped when the commit of the offset fails.
ReleasesUnlessCommitFails(m, outcome) ==
    ~Skipped(m) /\ outcome \notin {"crash", "commit_err"}

\* Whether processMessage issues Release when it returns: the release function
\* is deferred when waitForSlot handed one over, and a deferred call runs on
\* every return; a worker that dies runs nothing.
Releases(m, outcome) == ~Skipped(m) /\ outcome # "crash"

\* processMessage from the return of PlaceCall on: PublishStatus, CommitMessages
\* and the deferred release of the slot.  A worker that crashes does none of them.
CallWorkerFinishWith(m, result, outcome) ==
        /\ CopiesIn(m, calling) > 0
        /\ \E jitter \in Jitters(BackoffDelay(m), m.retry_jitter) :
              statusTopic' = IF outcome \in {"publish_err", "crash"} THEN statusTopic
                             ELSE WriteMessages(statusTopic,
                                                StatusMessage(m, result, jitter))
        /\ outcome # "ok" => faults < MaxFaults
        /\ outcome = "release_err" => ~Skipped(m)
        /\ faults' = IF outcome = "ok" THEN faults ELSE faults + 1
        /\ calling' = calling (-) One(m)
        /\ dispatchTopic' = IF outcome \in {"commit_err", "crash"}
                            THEN Redeliver(dispatchTopic, m)
                            ELSE CommitMessages(dispatchTopic, m)
        /\ held' = IF Releases(m, outcome) THEN held - 1 ELSE held
        /\ active' = IF Releases(m, outcome) /\ outcome # "release_err"
                     THEN Release(active) ELSE active
        /\ ttlLeft' = ExpiryAfterRelease(active', ttlLeft)
        /\ leak' = IF outcome = "crash" /\ ~Skipped(m)
                   THEN [slots |-> leak.slots + 1, age |-> 0]
                   ELSE leak
        /\ UNCHANGED <<campaign, now, apiError, hoursCheck, writer,
                       clock, fleet, loops, inflight, retryTopicCount, targets, calls, call_attempts, stats,
                       retryTopic, waiting, sched>>

\* processMessage from the return of PlaceCall on, for any result of the call.
CallWorkerFinish ==
    \E m \in BagToSet(calling), result \in ProviderResults,
       outcome \in CallWorkerOutcomes :
        CallWorkerFinishWith(m, result, outcome)

\* A call of Limiter.Acquire on the campaign's key by any caller, with any
\* positive limit: the script runs as one step of the throttle store.
LimiterAcquire(limit) ==
    LET got == Acquire(active, limit)
    IN /\ active' = got.value
       /\ ttlLeft' = Expiry(got, ttlLeft)
       /\ UNCHANGED <<campaign, now, apiError, hoursCheck, leak, writer, held,
                      clock, fleet, loops, inflight, retryTopicCount, targets, calls,
                      call_attempts, stats, dispatchTopic, statusTopic,
                      retryTopic, waiting, calling, sched, faults>>

\* A call of Limiter.Release on the campaign's key by any caller, whether or
\* not it acquired a slot before.
LimiterRelease ==
    /\ active' = Release(active)
    /\ ttlLeft' = ExpiryAfterRelease(active', ttlLeft)
    /\ UNCHANGED <<campaign, now, apiError, hoursCheck, leak, writer, held,
                   clock, fleet, loops, inflight, retryTopicCount, targets, calls, call_attempts,
                   stats, dispatchTopic, statusTopic, retryTopic, waiting,
                   calling, sched, faults>>

\* A tick of the clock while the counter's key exists: the key comes one tick
\* closer to its expiry and a leaked slot grows one tick older; a key whose
\* expiry is reached is deleted by the throttle store, the leaked slots with it.
Tick ==
    /\ active > 0
    /\ ttlLeft > 0
    /\ leak.age < TTLTicks
    /\ IF ttlLeft = 1
       THEN active' = 0 /\ ttlLeft' = 0 /\ leak' = NoLeak
       ELSE /\ active' = active
            /\ ttlLeft' = ttlLeft - 1
            /\ leak' = IF leak.slots > 0 THEN [leak EXCEPT !.age = @ + 1] ELSE leak
    /\ UNCHANGED <<campaign, now, apiError, hoursCheck, writer, held, clock, fleet, loops, inflight, retryTopicCount, targets,
                   calls, call_attempts, stats, dispatchTopic, statusTopic,
                   retryTopic, waiting, calling, sched, faults>>

\* ------------------------------------------------------------ status worker
\* CallStore.UpdateCallStatus
UpdateCallStatus(rows, callID, status, attemptCount) ==
    [rows EXCEPT ![callID].status = status, ![callID].attempt_count = attemptCount]

\* AppendAttempt keyed by a fresh id for every insert.
AppendAttemptNewRow(rows, callID, attemptNum) ==
    rows \cup {<<callID, attemptNum, Cardinality(rows)>>}

\* CallStore.AppendAttempt: the INSERT writes the row of its key; every column
\* it gives (call_id, attempt_number, status, error, created_at, duration_ms)
\* comes from the StatusMessage, so a second INSERT for the same message
\* writes the same row again.
AppendAttempt(rows, callID, attemptNum) == rows \cup {<<callID, attemptNum>>}

\* The stats delta with every attempt, the first included, counted as a retry.
StatusDeltaCountingFirst(status) ==
    LET retried == [ZeroDelta EXCEPT !.retries = 1]
    IN CASE status.status = "completed" ->
                [retried EXCEPT !.completed = 1, !.pending = -1]
         [] status.status = "failed" /\ ~status.retryable ->
                [retried EXCEPT !.failed = 1, !.pending = -1]
         [] OTHER -> retried

\* The stats delta the status worker derives from a StatusMessage.
StatusDelta(status) ==
    LET retried == [ZeroDelta EXCEPT !.retries = IF status.attempt > 1 THEN 1 ELSE 0]
    IN CASE status.status = "completed" ->
                [retried EXCEPT !.completed = 1, !.pending = -1]
         [] status.status = "failed" /\ ~status.retryable ->
                [retried EXCEPT !.failed = 1, !.pending = -1]
         [] OTHER -> retried

\* The RetryMessage the status worker builds, tagged with the topic it goes to.
RetryMessage(status) ==
    [topic |-> status.attempt,
     dispatch |-> [call_id |-> status.call_id,
                   campaign_id |-> status.campaign_id,
                   phone_number |-> status.phone_number,
                   attempt |-> status.attempt + 1,
                   max_attempts |-> status.max_attempts,
                   retry_base_ms |-> status.retry_base_ms,
                   retry_max_ms |-> status.retry_max_ms,
                   retry_jitter |-> status.retry_jitter,
                   concurrency_limit |-> status.concurrency_limit,
                   metadata |-> status.metadata],
     max_attempts |-> status.max_attempts,
     next_attempt |-> status.next_attempt[1]]

\* RetryScheduler.ScheduleRetry: an attempt outside 1..len(writers) is an error.
ScheduleRetry(topic, attempt, msg) ==
    IF attempt <= 0 \/ attempt > retryTopicCount THEN topic
    ELSE WriteMessages(topic, msg)

StatusWorkerOutcomes ==
    {"ok", "update_err", "append_err", "stats_err", "retry_err", "commit_err",
     "crash_after_update", "crash_after_append", "crash_after_stats"}

\* One round of the loop of the status worker's Run, for message m.  A failed
\* step is logged and the round goes on; a worker that crashes leaves the later
\* steps undone and the offset uncommitted.
StatusWorkerStep(m, outcome) ==
        LET crashed == outcome \in {"crash_after_update", "crash_after_append",
                                    "crash_after_stats"}
            doAppend == outcome \notin {"append_err", "crash_after_update"}
            doStats == outcome \notin {"stats_err", "crash_after_update",
                                       "crash_after_append"}
            doRetry == ~crashed /\ outcome # "retry_err"
                       /\ m.retryable /\ m.next_attempt # <<>>
            doCommit == ~crashed /\ outcome # "commit_err"
        IN /\ outcome # "ok" => faults < MaxFaults
           /\ faults' = IF outcome = "ok" THEN faults ELSE faults + 1
           /\ calls' = IF outcome = "update_err" THEN calls
                       ELSE UpdateCallStatus(calls, m.call_id, m.status, m.attempt)
           /\ call_attempts' = IF doAppend
                               THEN AppendAttempt(call_attempts, m.call_id, m.attempt)
                               ELSE call_attempts
           /\ stats' = IF doStats THEN ApplyDelta(stats, StatusDelta(m)) ELSE stats
           /\ retryTopic' = IF doRetry
                            THEN ScheduleRetry(retryTopic, m.attempt, RetryMessage(m))
                            ELSE retryTopic
           /\ statusTopic' = IF doCommit
                             THEN CommitMessages(FetchMessage(statusTopic, m), m)
                             ELSE statusTopic
           /\ UNCHANGED <<campaign, now, apiError, hoursCheck, ttlLeft, leak, writer, held, clock, fleet, loops, inflight, retryTopicCount, targets, active, dispatchTopic,
                          waiting, calling, sched>>

\* The status worker's Run: the round for the message the reader hands over.
StatusWorkerRun ==
    \E m \in BagToSet(statusTopic.queue), outcome \in StatusWorkerOutcomes :
        ~UnmarshalFails(m) /\ StatusWorkerStep(m, outcome)

\* ------------------------------------------------------------ retry worker
RetryWorkerOutcomes ==
    {"ok", "cancelled", "cancelled_commit_err", "dispatch_err", "commit_err"}

\* json.Marshal of a RetryMessage: the fields of the embedded DispatchMessage
\* are written at the top level of the object, next to next_attempt; the key
\* max_attempts is written once, from RetryMessage.MaxAttempts, which hides the
\* embedded field of the same key.
MarshalRetry(msg) ==
    [call_id |-> msg.dispatch.call_id,
     campaign_id |-> msg.dispatch.campaign_id,
     phone_number |-> msg.dispatch.phone_number,
     attempt |-> msg.dispatch.attempt,
     retry_base_ms |-> msg.dispatch.retry_base_ms,
     retry_max_ms |-> msg.dispatch.retry_max_ms,
     retry_jitter |-> msg.dispatch.retry_jitter,
     concurrency_limit |-> msg.dispatch.concurrency_limit,
     metadata |-> msg.dispatch.metadata,
     max_attempts |-> msg.max_attempts,
     next_attempt |-> msg.next_attempt]

\* json.Unmarshal into a RetryMessage: the key max_attempts is stored in
\* RetryMessage.MaxAttempts, and the hidden DispatchMessage.MaxAttempts keeps
\* its zero value.
UnmarshalRetry(json) ==
    [dispatch |-> [call_id |-> json.call_id,
                   campaign_id |-> json.campaign_id,
                   phone_number |-> json.phone_number,
                   attempt |-> json.attempt,
                   max_attempts |-> 0,
                   retry_base_ms |-> json.retry_base_ms,
                   retry_max_ms |-> json.retry_max_ms,
                   retry_jitter |-> json.retry_jitter,
                   concurrency_limit |-> json.concurrency_limit,
                   metadata |-> json.metadata],
     max_attempts |-> json.max_attempts,
     next_attempt |-> json.next_attempt]

\* sleepUntil that returns at once.
sleepUntilNoWait(t) == clock

\* sleepUntil without cancellation: the instant at which it returns, which is
\* the current one when t is not in the future and t otherwise.
sleepUntil(t) == IF t - clock <= 0 THEN clock ELSE t

\* One round of the loop of consumeTopic for message m: the decoding,
\* sleepUntil(next_attempt), DispatchCall of the inner dispatch (its enqueued_at,
\* which is not modelled, set to the current instant), CommitMessages.  When the sleep is cancelled
\* (which takes a next_attempt in the future) nothing is dispatched and the
\* offset is committed, unless that commit fails under the cancelled context;
\* when DispatchCall fails the loop goes on without a commit.
RetryWorkerConsumeWith(m, outcome) ==
    LET retryMsg == UnmarshalRetry(MarshalRetry(m))
        cancelled == outcome \in {"cancelled", "cancelled_commit_err"}
        woken == sleepUntil(retryMsg.next_attempt)
        dispatch == retryMsg.dispatch
    IN /\ CopiesIn(m, retryTopic.queue) > 0
       /\ cancelled => retryMsg.next_attempt > clock
       /\ outcome # "ok" => faults < MaxFaults
       /\ faults' = IF outcome = "ok" THEN faults ELSE faults + 1
       /\ clock' = IF cancelled THEN clock ELSE woken
       /\ dispatchTopic' = IF outcome \in {"ok", "commit_err"}
                           THEN WriteMessages(dispatchTopic, dispatch)
                           ELSE dispatchTopic
       /\ retryTopic' = IF outcome \in {"ok", "cancelled"}
                        THEN CommitMessages(FetchMessage(retryTopic, m), m)
                        ELSE retryTopic
       /\ UNCHANGED <<campaign, now, apiError, hoursCheck, ttlLeft, leak, writer,
                      held, fleet, loops, inflight, retryTopicCount, targets, calls, call_attempts,
                      stats, active, statusTopic, waiting, calling, sched>>

\* The loop of consumeTopic: the round for the message the reader hands over.
RetryWorkerConsume ==
    \E m \in BagToSet(retryTopic.queue), outcome \in RetryWorkerOutcomes :
        ~UnmarshalFails(m) /\ RetryWorkerConsumeWith(m, outcome)

\* ------------------------------------------------------------ worker loops
Workers == {"call", "status", "retry"}

\* The loops return on any error.
AfterErrorReturning(site, cancelled) == "return"

\* What the loop of a worker's Run does after an error of a step of a round:
\* it returns ctx.Err() after an error of FetchMessage under a cancelled
\* context, and logs the error and goes on to the next round in every other case.
AfterError(site, cancelled) ==
    IF site = "fetch" /\ cancelled THEN "return" ELSE "continue"

\* The loops after worker w met an error at the site.
LoopAfter(w, site) ==
    IF AfterError(site, loops.cancelled) = "return"
    THEN [loops EXCEPT !.stopped = @ \cup {w}]
    ELSE loops

\* The worker's Run is in its loop and its context is not cancelled.
Running(w) == ~loops.cancelled /\ w \notin loops.stopped

PoisonOutcomes == {"ok", "commit_err"}

\* A round on a message that json.Unmarshal rejects: the worker commits the
\* offset, ignoring the error of the commit, and the round ends.
PoisonRound(topic, m, outcome) ==
    IF outcome = "ok" THEN CommitMessages(FetchMessage(topic, m), m) ELSE topic

\* processMessage of the call worker on an undecodable dispatch: it commits
\* and returns the error of Unmarshal to Run, which logs it.
CallWorkerPoison ==
    \E m \in BagToSet(dispatchTopic.queue), outcome \in PoisonOutcomes :
        /\ UnmarshalFails(m)
        /\ BusyCallWorkers < NumCallWorkers
        /\ outcome # "ok" => faults < MaxFaults
        /\ faults' = IF outcome = "ok" THEN faults ELSE faults + 1
        /\ dispatchTopic' = PoisonRound(dispatchTopic, m, outcome)
        /\ loops' = LoopAfter("call", "process")
        /\ UNCHANGED <<campaign, fleet, now, clock, apiError, hoursCheck, ttlLeft,
                       leak, writer, held, inflight, retryTopicCount, targets, calls,
                       call_attempts, stats, active, statusTopic, retryTopic,
                       waiting, calling, sched>>

\* The status worker's round on an undecodable status.
StatusWorkerPoison ==
    \E m \in BagToSet(statusTopic.queue), outcome \in PoisonOutcomes :
        /\ UnmarshalFails(m)
        /\ outcome # "ok" => faults < MaxFaults
        /\ faults' = IF outcome = "ok" THEN faults ELSE faults + 1
        /\ statusTopic' = PoisonRound(statusTopic, m, outcome)
        /\ loops' = LoopAfter("status", "unmarshal")
        /\ UNCHANGED <<campaign, fleet, now, clock, apiError, hoursCheck, ttlLeft,
                       leak, writer, held, inflight, retryTopicCount, targets, calls,
                       call_attempts, stats, active, dispatchTopic, retryTopic,
                       waiting, calling, sched>>

\* The round of consumeTopic on an undecodable retry message.
RetryWorkerPoison ==
    \E m \in BagToSet(retryTopic.queue), outcome \in PoisonOutcomes :
        /\ UnmarshalFails(m)
        /\ outcome # "ok" => faults < MaxFaults
        /\ faults' = IF outcome = "ok" THEN faults ELSE faults + 1
        /\ retryTopic' = PoisonRound(retryTopic, m, outcome)
        /\ loops' = LoopAfter("retry", "unmarshal")
        /\ UNCHANGED <<campaign, fleet, now, clock, apiError, hoursCheck, ttlLeft,
                       leak, writer, held, inflight, retryTopicCount, targets, calls,
                       call_attempts, stats, active, dispatchTopic, statusTopic,
                       waiting, calling, sched>>

\* FetchMessage fails: under a cancelled context for every worker, which
\* returns; by a fault of the broker otherwise, which the worker logs.
WorkerFetchFails(w) ==
    /\ w \notin loops.stopped
    /\ ~loops.cancelled => faults < MaxFaults
    /\ faults' = IF loops.cancelled THEN faults ELSE faults + 1
    /\ loops' = LoopAfter(w, "fetch")
    /\ UNCHANGED <<campaign, fleet, now, clock, apiError, hoursCheck, ttlLeft,
                   leak, writer, held, inflight, retryTopicCount, targets, calls,
                   call_attempts, stats, active, dispatchTopic, statusTopic,
                   retryTopic, waiting, calling, sched>>

\* The processes are told to stop: the context of every worker is cancelled.
Cancel ==
    /\ ~loops.cancelled
    /\ loops' = [loops EXCEPT !.cancelled = TRUE]
    /\ UNCHANGED <<campaign, fleet, now, clock, apiError, hoursCheck, ttlLeft,
                   leak, writer, held, inflight, retryTopicCount, targets, calls,
                   call_attempts, stats, active, dispatchTopic, statusTopic,
                   retryTopic, waiting, calling, sched, faults>>

\* Time passes while no process takes a step.
Elapse ==
    /\ clock < MaxClock
    /\ clock' = clock + 1
    /\ UNCHANGED <<campaign, now, apiError, hoursCheck, ttlLeft, leak, writer,
                   held, fleet, loops, inflight, retryTopicCount, targets, calls, call_attempts, stats,
                   active, dispatchTopic, statusTopic, retryTopic, waiting,
                   calling, sched, faults>>

\* ------------------------------------------------------------ specifications
\* The dispatch engine: schedulers, call workers, status worker, retry workers.
Next ==
    \/ StartCampaign
    \/ \E s \in Schedulers : SchedulerSkip(s)
    \/ \E s \in Schedulers : SchedulerSelect(s)
    \/ \E s \in Schedulers : SchedulerDispatch(s)
    \/ CallWorkerFetch
    \/ CallWorkerWaitForSlot
    \/ CallWorkerFinish
    \/ StatusWorkerRun
    \/ RetryWorkerConsume

Spec == Init /\ [][Next]_vars

\* The call workers and the limiter under dispatches triggered over HTTP.
NextThrottle ==
    \/ ApiTriggerCall
    \/ CallWorkerFetch
    \/ CallWorkerWaitForSlot
    \/ CallWorkerFinish

SpecThrottle == Init /\ [][NextThrottle]_vars

\* A campaign created with no limit of its own under a configuration without a
\* default limit (MaxConcurrentCalls = 0), or with a limit.
InitRelease ==
    /\ campaign \in [MaxConcurrentCalls : 0..MaxLimit, MaxAttempts : {1},
                      BaseDelay : {PolicyBaseDelay}, MaxDelay : {PolicyMaxDelay},
                      Jitter : {0},
                      Status : {"pending"}, StartedAt : {<<>>}, BusinessHours : {OfficeHours}]
    /\ now = MondayMorning
    /\ InitPipeline

\* The call workers with and without slot acquisition.
SpecRelease == InitRelease /\ [][NextThrottle]_vars

\* The call workers and the limiter while time passes.
NextLeak ==
    \/ ApiTriggerCall
    \/ CallWorkerFetch
    \/ CallWorkerWaitForSlot
    \/ CallWorkerFinish
    \/ Tick

SpecLeak == Init /\ [][NextLeak]_vars

\* One call of the campaign dispatched, and in every topic, or in some, a message
\* that cannot be decoded.
InitPoison ==
    /\ campaign \in [MaxConcurrentCalls : {1}, MaxAttempts : {2},
                      BaseDelay : {PolicyBaseDelay}, MaxDelay : {PolicyMaxDelay},
                      Jitter : {0}, Status : {"in_progress"}, StartedAt : {<<MondayMorning>>},
                      BusinessHours : {OfficeHours}]
    /\ now = MondayMorning
    /\ clock = 0
    /\ fleet = NoFleet
    /\ loops = AllRunning
    /\ inflight = {}
    /\ apiError = "none"
    /\ hoursCheck = "none"
    /\ retryTopicCount = 1
    /\ targets = [t \in Targets |-> "queued"]
    /\ calls = [c \in CallIDs |->
                   IF c = 1 THEN [phone_number |-> 1, origin |-> "scheduler",
                                  status |-> "queued", attempt_count |-> 0]
                   ELSE NoCall]
    /\ call_attempts = {}
    /\ stats = [ZeroDelta EXCEPT !.total = 1, !.pending = 1]
    /\ active = 0
    /\ ttlLeft = 0
    /\ leak = NoLeak
    /\ held = 0
    /\ \E poisoned \in (SUBSET Workers) \ {{}} :
          /\ dispatchTopic =
                LET topic == WriteMessages(EmptyTopic, DispatchMessage(1, 1, 1))
                IN IF "call" \in poisoned
                   THEN WriteMessages(topic, PoisonMessage) ELSE topic
          /\ statusTopic = IF "status" \in poisoned
                           THEN WriteMessages(EmptyTopic, PoisonMessage)
                           ELSE EmptyTopic
          /\ retryTopic = IF "retry" \in poisoned
                          THEN WriteMessages(EmptyTopic, PoisonMessage)
                          ELSE EmptyTopic
    /\ waiting = EmptyBag
    /\ calling = EmptyBag
    /\ sched = [s \in Schedulers |-> [pc |-> "idle", batch |-> {}]]
    /\ faults = 0
    /\ writer = NewWriter

\* The three workers on decodable and undecodable messages, until they are
\* told to stop.
NextPoison ==
    \/ Running("call") /\ CallWorkerFetch
    \/ Running("call") /\ CallWorkerWaitForSlot
    \/ Running("call") /\ CallWorkerFinish
    \/ Running("call") /\ CallWorkerPoison
    \/ Running("status") /\ StatusWorkerRun
    \/ Running("status") /\ StatusWorkerPoison
    \/ Running("retry") /\ RetryWorkerConsume
    \/ Running("retry") /\ RetryWorkerPoison
    \/ \E w \in Workers : WorkerFetchFails(w)
    \/ Cancel

SpecPoison == InitPoison /\ [][NextPoison]_vars

\* The retry policies and the attempts computeNextAttempt is applied to: base
\* delays 1..MaxBackoffBase, largest delays from the base on up to
\* MaxBackoffMax, and every attempt below max_attempts, whose power of two a
\* time.Duration can hold.
MaxBackoffBase == 3
MaxBackoffMax == 4

\* A call worker placed the call of a DispatchMessage of some attempt below
\* max_attempts, under some retry policy without jitter.
InitBackoff ==
    /\ campaign \in {c \in [MaxConcurrentCalls : {1},
                             MaxAttempts : 2..DurationBits,
                             BaseDelay : 1..MaxBackoffBase,
                             MaxDelay : 1..MaxBackoffMax,
                             Jitter : {0}, Status : {"in_progress"}, StartedAt : {<<MondayMorning>>},
                             BusinessHours : {OfficeHours}] :
                         c.MaxDelay >= c.BaseDelay}
    /\ now = MondayMorning
    /\ clock = 0
    /\ fleet = NoFleet
    /\ loops = AllRunning
    /\ inflight = {}
    /\ apiError = "none"
    /\ hoursCheck = "none"
    /\ retryTopicCount = 1
    /\ targets = [t \in Targets |-> "queued"]
    /\ calls = [c \in CallIDs |->
                   IF c = 1 THEN [phone_number |-> 1, origin |-> "scheduler",
                                  status |-> "queued", attempt_count |-> 0]
                   ELSE NoCall]
    /\ call_attempts = {}
    /\ stats = [ZeroDelta EXCEPT !.total = 1, !.pending = 1]
    /\ active = 1
    /\ ttlLeft = TTLTicks
    /\ leak = NoLeak
    /\ held = 1
    /\ \E a \in 1..(campaign.MaxAttempts - 1) :
          LET msg == [DispatchMessage(1, 1, 1) EXCEPT !.attempt = a]
          IN /\ dispatchTopic = FetchMessage(WriteMessages(EmptyTopic, msg), msg)
             /\ calling = One(msg)
    /\ statusTopic = EmptyTopic
    /\ retryTopic = EmptyTopic
    /\ waiting = EmptyBag
    /\ sched = [s \in Schedulers |-> [pc |-> "idle", batch |-> {}]]
    /\ faults = 0
    /\ writer = NewWriter

\* processMessage from the return of PlaceCall on, computeNextAttempt included.
NextBackoff == CallWorkerFinish

SpecBackoff == InitBackoff /\ [][NextBackoff]_vars

\* The schedulers alone, with ticks that are cut short.
NextStrand ==
    \/ StartCampaign
    \/ \E s \in Schedulers : SchedulerSkip(s)
    \/ \E s \in Schedulers : SchedulerSelect(s)
    \/ \E s \in Schedulers : SchedulerDispatch(s)
    \/ \E s \in Schedulers : \E done \in SUBSET sched[s].batch :
           SchedulerInterrupted(s, done)

SpecStrand == Init /\ [][NextStrand]_vars

\* The limiter under the call workers, the expiry of its key and calls of
\* Acquire and Release by any other caller, in any order.
NextLimiter ==
    \/ NextLeak
    \/ \E limit \in 1..MaxLimit : LimiterAcquire(limit)
    \/ LimiterRelease

SpecLimiter == Init /\ [][NextLimiter]_vars

\* The status worker at work on one StatusMessage of the first call of the
\* campaign: any attempt up to max_attempts with any result of the provider,
\* with one retry topic or one for each retry of the policy.
InitStatus ==
    /\ campaign \in [MaxConcurrentCalls : {1},
                      MaxAttempts : 1..MaxAttemptsBound,
                      BaseDelay : {PolicyBaseDelay}, MaxDelay : {PolicyMaxDelay},
                      Jitter : {0},
                      Status : {"in_progress"}, StartedAt : {<<MondayMorning>>},
                      BusinessHours : {OfficeHours}]
    /\ now = MondayMorning
    /\ clock = 0
    /\ fleet = NoFleet
    /\ loops = AllRunning
    /\ inflight = {}
    /\ apiError = "none"
    /\ hoursCheck = "none"
    /\ retryTopicCount \in 1..(MaxAttemptsBound - 1)
    /\ targets = [t \in Targets |-> "queued"]
    /\ calls = [c \in CallIDs |->
                   IF c = 1 THEN [phone_number |-> 1, origin |-> "scheduler",
                                  status |-> "queued", attempt_count |-> 0]
                   ELSE NoCall]
    /\ call_attempts = {}
    /\ stats = [ZeroDelta EXCEPT !.total = 1, !.pending = 1]
    /\ active = 0
    /\ ttlLeft = 0
    /\ leak = NoLeak
    /\ held = 0
    /\ dispatchTopic = EmptyTopic
    /\ \E a \in 1..campaign.MaxAttempts, result \in ProviderResults :
          statusTopic = WriteMessages(EmptyTopic,
                                      StatusMessage([DispatchMessage(1, 1, 1)
                                                         EXCEPT !.attempt = a],
                                                    result, 0))
    /\ retryTopic = EmptyTopic
    /\ waiting = EmptyBag
    /\ calling = EmptyBag
    /\ sched = [s \in Schedulers |-> [pc |-> "idle", batch |-> {}]]
    /\ faults = 0
    /\ writer = NewWriter

\* The status worker, the retry workers and the passing of time.
NextStatus ==
    \/ StatusWorkerRun
    \/ RetryWorkerConsume
    \/ Elapse

SpecStatus == InitStatus /\ [][NextStatus]_vars

\* Several campaigns, in_progress or paused, with up to MaxFleetTargets pending
\* targets each, in the order of their ids.
InitFleet ==
    /\ campaign \in [MaxConcurrentCalls : {1}, MaxAttempts : {1},
                      BaseDelay : {PolicyBaseDelay}, MaxDelay : {PolicyMaxDelay},
                      Jitter : {0}, Status : {"in_progress"}, StartedAt : {<<MondayMorning>>},
                      BusinessHours : {<<>>}]
    /\ now = MondayMorning
    /\ InitEngine
    /\ fleet \in [order : {[i \in Campaigns |-> i]},
                   rows : [Campaigns -> [status : {"in_progress", "paused"},
                                         pending : 0..MaxFleetTargets,
                                         queued : {0}]]]

NextFleet ==
    \/ SchedulerTick
    \/ \E c \in Campaigns : FleetUpdate(c)

SpecFleet == InitFleet /\ [][NextFleet]_vars

\* The scheduler's ticker fires at every interval for as long as the process
\* runs, whatever else happens: a tick that can claim targets again and again
\* does so in the end.
SpecFleetFair == SpecFleet /\ SF_vars(SchedulerTick)

\* A writer publishing messages keyed by call id, of any size.
NextWriter ==
    \E key \in CallIDs, bytes \in 1..MaxMessageBytes : WriterPublish(key, bytes)

SpecWriter == Init /\ [][NextWriter]_vars

\* The dispatch engine without infrastructure errors, under the lifecycle
\* operations of the campaign API and the passing of time.
NextCampaign ==
    \/ Next /\ faults' = faults
    \/ PauseCampaign
    \/ CompleteCampaign
    \/ \E t \in {MondayMorning, MondayNight} : ClockAdvance(t)

SpecCampaign == Init /\ [][NextCampaign]_vars

\* The campaign operations of the API, running concurrently.
NextLifecycle ==
    \/ \E kind \in OpKinds, limit \in 1..MaxLimit : ApiBegin(kind, limit)
    \/ \E o \in inflight : ApiCommit(o)
    \/ \E t \in {MondayMorning, MondayNight} : ClockAdvance(t)

SpecLifecycle == Init /\ [][NextLifecycle]_vars

\* Creation and update of a campaign with business hours, and the scheduler's
\* evaluation of the stored windows.
NextCreate ==
    \/ \E windows \in HourInputs : CreateCampaign(windows)
    \/ \E windows \in HourInputs : UpdateCampaign(windows)
    \/ CheckBusinessHours

SpecCreate == InitCreate /\ [][NextCreate]_vars

\* isWithinBusinessHours on every window list and minute of the week.
NextHours == CheckBusinessHours

SpecHours == InitHours /\ [][NextHours]_vars

\* ------------------------------------------------------------ properties
\* No message is left in any topic and no process is inside an operation.
Quiescent ==
    /\ dispatchTopic.queue = EmptyBag
    /\ statusTopic.queue = EmptyBag
    /\ retryTopic.queue = EmptyBag
    /\ waiting = EmptyBag
    /\ calling = EmptyBag
    /\ \A s \in Schedulers : sched[s].pc # "selected"

\* Number of messages of a bag that satisfy P.
Count(bag, P(_)) ==
    LET S == {m \in BagToSet(bag) : P(m)}
        RECURSIVE Sum(_)
        Sum(T) == IF T = {} THEN 0
                  ELSE LET m == CHOOSE x \in T : TRUE
                       IN CopiesIn(m, bag) + Sum(T \ {m})
    IN Sum(S)

\* C1: with every dispatch carrying the campaign's limit L > 0, the counter of
\* the campaign in the throttle store never exceeds L, and the number of
\* telephony calls in progress never exceeds the counter; so a worker that
\* finds the counter at L waits until a slot is released.
C1_ConcurrencyCeiling ==
    /\ active <= campaign.MaxConcurrentCalls
    /\ BagCardinality(calling) <= active
    /\ active >= 0

\* C1 witness: L = 2, two calls in progress, the third worker waits for a slot.
C1_ThirdWorkerWaits ==
    /\ campaign.MaxConcurrentCalls = 2
    /\ active = 2
    /\ BagCardinality(calling) = 2
    /\ BagCardinality(waiting) = 1

DispatchLog == BagToSet(dispatchTopic.log)
StatusLog == BagToSet(statusTopic.log)
RetryLog == BagToSet(retryTopic.log)

\* The StatusMessage a step of the call worker adds to the status topic.
Published(st) == CopiesIn(st, statusTopic'.log) > CopiesIn(st, statusTopic.log)

\* C2: without crash or infrastructure error, once nothing is left to do every
\* dispatched call has a terminal StatusMessage (completed, or failed and not
\* retryable) and every retryable status of attempt a was followed by a
\* DispatchMessage for attempt a + 1; and an attempt a < max_attempts (of the
\* campaign's retry policy) that the provider fails as retryable is given a
\* retryable status with its next_attempt, from which the retry follows.
C2_EveryCallTerminates ==
    /\ []((faults = 0 /\ Quiescent) =>
            /\ \A d \in DispatchLog :
                  \E st \in StatusLog :
                      /\ st.call_id = d.call_id
                      /\ st.status = "completed" \/ ~st.retryable
            /\ \A st \in StatusLog :
                  st.retryable =>
                      \E d \in DispatchLog :
                          d.call_id = st.call_id /\ d.attempt = st.attempt + 1)
    /\ [][\A m \in BagToSet(calling), result \in ProviderResults :
              (/\ CallWorkerFinishWith(m, result, "ok")
               /\ result.retryable
               /\ m.attempt < campaign.MaxAttempts) =>
                  \E st \in BagToSet(statusTopic'.log) :
                      /\ Published(st)
                      /\ st.call_id = m.call_id /\ st.attempt = m.attempt
                      /\ st.retryable /\ st.next_attempt # <<>>]_vars

\* C3: every DispatchMessage, StatusMessage and RetryMessage ever published
\* carries an attempt number in 1..M, M being the max_attempts of the campaign's
\* retry policy, with which every call is created, and no telephony call is
\* placed with attempt > M.
C3_AttemptsWithinMax ==
    /\ \A d \in DispatchLog : d.attempt \in 1..campaign.MaxAttempts
    /\ \A st \in StatusLog : st.attempt \in 1..campaign.MaxAttempts
    /\ \A r \in RetryLog : r.dispatch.attempt \in 1..campaign.MaxAttempts
    /\ \A d \in BagToSet(calling) \cup BagToSet(waiting) :
          d.attempt \in 1..campaign.MaxAttempts

\* C3 witness: a call was retried up to its last attempt, which failed, and the
\* status of that attempt is not retryable although an earlier one was.
C3_LastAttemptFailed ==
    \E st \in StatusLog, r \in RetryLog :
        /\ st.attempt = campaign.MaxAttempts
        /\ st.attempt >= 2
        /\ st.status = "failed"
        /\ ~st.retryable
        /\ r.dispatch.call_id = st.call_id
        /\ r.dispatch.attempt = st.attempt

\* C4: with several schedulers ticking over the campaign, no target gets two
\* attempt-1 DispatchMessages and, when no operation failed, no target gets two
\* Call rows.
C4_NoDoubleClaim ==
    \A t \in Targets :
        LET rows == {c \in CallIDs : calls[c].origin = "scheduler"
                                     /\ calls[c].phone_number = t}
            dispatched == {c \in rows : \E d \in DispatchLog :
                                            d.call_id = c /\ d.attempt = 1}
        IN /\ Cardinality(dispatched) <= 1
           /\ faults = 0 => Cardinality(rows) <= 1

\* C5: for every committed dispatch offset exactly one StatusMessage with the
\* same call_id and attempt is in the status topic.
C5_DispatchCommitAfterStatus ==
    \A d \in BagToSet(dispatchTopic.committed) :
        LET Same(st) == st.call_id = d.call_id /\ st.attempt = d.attempt
        IN Count(statusTopic.log, Same) = 1

\* C6: for every committed status offset the CallAttempt row of (call_id,
\* attempt) exists and, when the status is retryable, the RetryMessage for the
\* next attempt was published.
C6_StatusCommitAfterEffects ==
    \A st \in BagToSet(statusTopic.committed) :
        /\ <<st.call_id, st.attempt>> \in call_attempts
        /\ st.retryable =>
              \E r \in RetryLog : /\ r.dispatch.call_id = st.call_id
                                  /\ r.dispatch.attempt = st.attempt + 1

\* C7: for every committed retry offset the inner DispatchMessage was
\* republished to the dispatch topic.
C7_RetryCommitAfterDispatch ==
    \A r \in BagToSet(retryTopic.committed) :
        \E d \in DispatchLog :
            d.call_id = r.dispatch.call_id /\ d.attempt = r.dispatch.attempt

\* C8: for every call and attempt number at most one DispatchMessage is ever
\* published to the dispatch topic.
C8_NoFanOut ==
    \A d \in DispatchLog :
        LET Same(x) == x.call_id = d.call_id /\ x.attempt = d.attempt
        IN Count(dispatchTopic.log, Same) <= 1

\* C9: each (call_id, attempt) contributes its stats delta at most once: no
\* counter exceeds the number of (call_id, attempt) pairs whose status feeds it.
C9_NoDoubleCount ==
    LET Pairs(P(_)) == {<<st.call_id, st.attempt>> : st \in {x \in StatusLog : P(x)}}
        Completed(st) == st.status = "completed"
        Failed(st) == st.status = "failed" /\ ~st.retryable
        Retried(st) == st.attempt > 1
    IN /\ stats.completed <= Cardinality(Pairs(Completed))
       /\ stats.failed <= Cardinality(Pairs(Failed))
       /\ stats.retries <= Cardinality(Pairs(Retried))

\* C10: at quiescence total = completed + failed + in_progress + pending.
C10_TotalsBalance ==
    Quiescent =>
        stats.total = stats.completed + stats.failed + stats.in_progress + stats.pending

\* C11: after every applied stats delta each counter of the campaign (total,
\* completed, failed, in_progress, pending, retries) is >= 0.
C11_CountersNonNegative ==
    \A k \in DOMAIN stats : stats[k] >= 0

\* The stores hold what the processing of StatusMessage m leaves in them.
AlreadyApplied(m) ==
    /\ calls[m.call_id].status = m.status
    /\ calls[m.call_id].attempt_count = m.attempt
    /\ \E r \in call_attempts : r[1] = m.call_id /\ r[2] = m.attempt

C13_AttemptCountMonotonic ==
    [][\A c \in CallIDs : calls'[c].attempt_count >= calls[c].attempt_count]_vars

\* C14: a tick that starts while a retry topic holds a message its retry worker
\* has not consumed claims no target: it does not get past the retry gate.
C14_RetryGate ==
    [][\A s \in Schedulers :
          (sched[s].pc # "selected" /\ retryTopic.queue # EmptyBag) =>
              sched'[s].pc # "selected"]_vars

\* Every message of every retry topic was consumed and committed.
RetriesDrained ==
    /\ retryTopic.log # EmptyBag
    /\ retryTopic.queue = EmptyBag
    /\ retryTopic.committed = retryTopic.log

\* C15: once the retry workers have consumed and committed every retry message,
\* a tick over an in_progress campaign inside its business hours with pending
\* targets is not stopped by the retry gate.
C15_ResumesAfterDrain ==
    [][\A s \in Schedulers :
          (/\ sched[s].pc = "idle"
           /\ campaign.Status = "in_progress"
           /\ isWithinBusinessHours(now, campaign)
           /\ RetriesDrained
           /\ NextBatchForScheduling(MaxBatchSize) # {}) =>
              sched'[s].pc # "skipped"]_vars

\* C16: a call worker passes a dispatch to the telephony provider only while
\* the campaign is in_progress and the time is inside its business hours.
C16_CallsOnlyWhenActive ==
    [][BagCardinality(calling') > BagCardinality(calling) =>
          /\ campaign.Status = "in_progress"
          /\ isWithinBusinessHours(now, campaign)]_vars

\* The reference predicate of the business hours: a same-day window (End >
\* Start) passes on its day from Start up to End; a window with End <= Start
\* passes on its day from Start on and on the next day before End; an empty
\* window list always passes.
WindowPasses(t, w) ==
    IF w.End > w.Start
    THEN t.weekday = w.DayOfWeek /\ w.Start <= t.minute /\ t.minute < w.End
    ELSE \/ t.weekday = w.DayOfWeek /\ t.minute >= w.Start
         \/ t.weekday = (w.DayOfWeek + 1) % 7 /\ t.minute < w.End

WithinWindows(t, windows) ==
    windows = <<>> \/ \E i \in 1..Len(windows) : WindowPasses(t, windows[i])

\* C17: a tick that finds the in_progress campaign outside all of its
\* business-hour windows ends without claiming: it leaves every target, every
\* Call row, the counters and the dispatch topic as they are.
C17_NoClaimOutsideHours ==
    [][\A s \in Schedulers :
          (/\ sched[s].pc # "selected"
           /\ sched'[s] # sched[s]
           /\ campaign.Status = "in_progress"
           /\ ~WithinWindows(now, campaign.BusinessHours)) =>
              /\ sched'[s].pc = "skipped"
              /\ UNCHANGED <<targets, calls, stats, dispatchTopic>>]_vars

\* C17 witness: Monday 20:00, the campaign in_progress with office hours, no
\* retry ever published: a scheduler's tick ended without a claim and the target
\* is still pending, with no Call row, no counter and no dispatch.
C17_SkippedAtNight ==
    /\ now = MondayNight
    /\ campaign.Status = "in_progress"
    /\ campaign.BusinessHours = OfficeHours
    /\ retryTopic.log = EmptyBag
    /\ \E s \in Schedulers : sched[s].pc = "skipped"
    /\ \A t \in Targets : targets[t] = "pending"
    /\ \A c \in CallIDs : calls[c] = NoCall
    /\ stats = ZeroDelta
    /\ dispatchTopic = EmptyTopic

\* C18: isWithinBusinessHours answers as the reference predicate for every
\* weekday, minute and window list; Monday 22:00-02:00 passes at Monday 23:59
\* and Tuesday 01:59 and fails at Tuesday 02:00 and Monday 21:59.
C18_MatchesReference ==
    hoursCheck # "none" =>
        /\ hoursCheck = "within" <=> WithinWindows(now, campaign.BusinessHours)
        /\ campaign.BusinessHours = NightShift =>
              /\ now = [weekday |-> 1, minute |-> 23 * 60 + 59] => hoursCheck = "within"
              /\ now = [weekday |-> 2, minute |-> 60 + 59] => hoursCheck = "within"
              /\ now = [weekday |-> 2, minute |-> 2 * 60] => hoursCheck = "outside"
              /\ now = [weekday |-> 1, minute |-> 21 * 60 + 59] => hoursCheck = "outside"

\* C18 witness: Monday 22:00-02:00 was found open at Tuesday 01:59.
C18_TuesdayBeforeTwo ==
    /\ campaign.BusinessHours = NightShift
    /\ now = [weekday |-> 2, minute |-> 60 + 59]
    /\ hoursCheck = "within"

\* C19: completed is terminal: once the campaign is completed, every start,
\* pause or complete is rejected with an error and the status stays completed.
C19_CompletedIsTerminal ==
    [][campaign.Status = "completed" =>
           /\ campaign'.Status = "completed"
           /\ (StartCampaign \/ PauseCampaign \/ CompleteCampaign) =>
                  apiError' # "none"]_vars

\* C20: TriggerCall with the empty phone number or with a phone number of no
\* target of the campaign returns a validation error (an internal error when
\* the lookup itself fails) and has no effect: no Call row, no counter change,
\* no DispatchMessage.
C20_UnregisteredRejected ==
    [][\A phone \in {EmptyPhone, UnregisteredPhone},
          outcome \in {"ok", "lookup_err"} :
          ApiTriggerCallFor(phone, outcome) =>
              /\ UNCHANGED <<calls, stats, dispatchTopic, targets>>
              /\ outcome = "ok" => apiError' = "validation"
              /\ apiError' # "none"]_vars

\* C20 witness: a request was rejected as invalid after one call had been
\* created, and the stores hold that call only.
C20_RejectedAfterOneCall ==
    /\ apiError = "validation"
    /\ NextCallID(calls) = 2
    /\ stats.total = 1
    /\ BagCardinality(dispatchTopic.log) = 1

DispatchesOf(c) == {d \in DispatchLog : d.call_id = c}
StatusesOf(c) == {st \in StatusLog : st.call_id = c}

\* The calls that have a row.
CreatedCalls == {c \in CallIDs : calls[c].status # "none"}

\* The sum of attempt_count - 1 over the rows of the calls in S.
RECURSIVE RetriesOf(_)
RetriesOf(S) ==
    IF S = {} THEN 0
    ELSE LET c == CHOOSE x \in S : TRUE
         IN (calls[c].attempt_count - 1) + RetriesOf(S \ {c})

\* C22: without redelivery or infrastructure error, a call whose row is
\* completed with attempt_count a has exactly one DispatchMessage and one
\* StatusMessage for each attempt 1..a and none beyond, the statuses of attempts
\* 1..a-1 being retryable failures and the one of attempt a completed, and a
\* CallAttempt rows; every message was published after its predecessor in the
\* chain Dispatch(1), Status(1), retry, Dispatch(2), ..., Status(a); and once
\* every call is completed the counters are total = completed = number of calls,
\* pending = 0 and retries = the sum of a - 1.
C22_CompletedOnAttempt ==
    faults = 0 =>
        /\ \A c \in CallIDs :
              calls[c].status = "completed" =>
                  LET a == calls[c].attempt_count
                      SameCall(m) == m.call_id = c
                  IN /\ a \in 1..campaign.MaxAttempts
                     /\ Count(dispatchTopic.log, SameCall) = a
                     /\ {d.attempt : d \in DispatchesOf(c)} = 1..a
                     /\ Count(statusTopic.log, SameCall) = a
                     /\ \A st \in StatusesOf(c) :
                           IF st.attempt = a THEN st.status = "completed"
                           ELSE st.attempt \in 1..(a - 1) /\ st.status = "failed"
                                /\ st.retryable
                     /\ {r \in call_attempts : r[1] = c} = {<<c, k>> : k \in 1..a}
        /\ \A st \in StatusLog :
              \E d \in DispatchLog : d.call_id = st.call_id /\ d.attempt = st.attempt
        /\ \A r \in RetryLog :
              \E st \in StatusLog : /\ st.call_id = r.dispatch.call_id
                                    /\ st.attempt + 1 = r.dispatch.attempt
                                    /\ st.retryable
        /\ \A d \in DispatchLog :
              d.attempt > 1 =>
                  \E r \in RetryLog : /\ r.dispatch.call_id = d.call_id
                                      /\ r.dispatch.attempt = d.attempt
        /\ (CreatedCalls # {} /\ \A c \in CreatedCalls : calls[c].status = "completed") =>
              /\ stats.total = Cardinality(CreatedCalls)
              /\ stats.completed = Cardinality(CreatedCalls)
              /\ stats.pending = 0
              /\ stats.failed = 0
              /\ stats.retries = RetriesOf(CreatedCalls)

\* C22 witness: the only call completed on its second attempt, after one
\* retryable failure, with no error on the way.
C22_CompletedOnSecond ==
    /\ faults = 0
    /\ CreatedCalls = {1}
    /\ calls[1].status = "completed" /\ calls[1].attempt_count = 2
    /\ BagCardinality(dispatchTopic.log) = 2
    /\ BagCardinality(statusTopic.log) = 2
    /\ BagCardinality(retryTopic.log) = 1
    /\ stats = [ZeroDelta EXCEPT !.total = 1, !.completed = 1, !.retries = 1]

\* C23: without redelivery or error, once nothing is left to do, a call with
\* max_attempts = M whose attempts all failed, retryable whenever the policy
\* left an attempt, has exactly the DispatchMessages of attempts 1..M, each
\* once, its status of attempt M is not retryable and those before are, no retry
\* is published beyond attempt M, and, the call being the only one, the counters
\* are total = 1, failed = 1, pending = 0 and retries = M - 1; and the status
\* of an attempt the provider fails with retryable = true is retryable exactly
\* when the attempt is below M.
C23_Exhaustion ==
    /\ []((faults = 0 /\ Quiescent) =>
            \A c \in CreatedCalls :
                LET M == campaign.MaxAttempts
                    SameCall(m) == m.call_id = c
                IN (/\ StatusesOf(c) # {}
                    /\ \A st \in StatusesOf(c) :
                          st.status = "failed" /\ (st.attempt < M => st.retryable)) =>
                       /\ Count(dispatchTopic.log, SameCall) = M
                       /\ {d.attempt : d \in DispatchesOf(c)} = 1..M
                       /\ \A st \in StatusesOf(c) : st.retryable <=> st.attempt < M
                       /\ \A r \in RetryLog :
                             r.dispatch.call_id = c => r.dispatch.attempt <= M
                       /\ CreatedCalls = {c} =>
                             stats = [ZeroDelta EXCEPT !.total = 1, !.failed = 1,
                                                       !.retries = M - 1])
    /\ [][\A m \in BagToSet(calling), result \in ProviderResults :
              (/\ CallWorkerFinishWith(m, result, "ok")
               /\ result.status = "failed" /\ result.retryable
               /\ ~result.callErr) =>
                  \A st \in BagToSet(statusTopic'.log) :
                      Published(st) =>
                          (st.retryable <=> m.attempt < campaign.MaxAttempts)]_vars

\* C24: a slot leaked by a call worker that died between Acquire and Release
\* no longer counts against the limit one TTL after the leak: from then on the
\* counter is not above the number of calls in progress.
C24_LeakExpiresWithinTTL ==
    (leak.slots > 0 /\ leak.age >= TTLTicks) => active <= BagCardinality(calling)

\* C25: within a topic all messages of one call are written to the same
\* partition, the partition being a function of the call-id key.
C25_SameCallSamePartition ==
    \A i, j \in 1..Len(writer.written) :
        writer.written[i].key = writer.written[j].key =>
            writer.written[i].partition = writer.written[j].partition

\* C26: creation accepts a business-hour window whose end time of day is
\* earlier than its start (a window over midnight) and stores it as given, and
\* rejects a window whose end equals its start.
C26_MidnightWindowAccepted ==
    [][\A windows \in HourInputs \ {<<>>} :
          CreateCampaign(windows) =>
              /\ windows[1].End = windows[1].Start => apiError' = "validation"
              /\ windows[1].End < windows[1].Start =>
                    /\ apiError' = "none"
                    /\ campaign'.BusinessHours = windows]_vars

C28_AcquireErrorRetried ==
    [][\A m \in BagToSet(waiting) :
          CopiesIn(m, waiting') < CopiesIn(m, waiting) =>
              CopiesIn(m, calling') > CopiesIn(m, calling)]_vars

\* A call worker in PlaceCall that holds a slot.
HoldsSlot(m) == ~Skipped(m)

\* C29: every successful Acquire of a call worker is followed by exactly one
\* Release on every return of processMessage, and no Release is issued when
\* the acquisition was skipped or did not succeed: the acquisitions not yet
\* released are those of the workers inside the telephony call with a slot and
\* of the workers that died.
C29_ReleaseMatchesAcquire ==
    held = Count(calling, HoldsSlot) + leak.slots

\* C29 witness: the status was published, the commit of the dispatch offset
\* failed and the slot was released all the same.
C29_ReleasedAfterCommitFailure ==
    /\ campaign.MaxConcurrentCalls > 0
    /\ faults = 1
    /\ BagCardinality(statusTopic.log) = 1
    /\ dispatchTopic.committed = EmptyBag
    /\ dispatchTopic.queue # EmptyBag
    /\ calling = EmptyBag /\ waiting = EmptyBag
    /\ held = 0 /\ active = 0

\* C30: the StatusMessage the call worker publishes for a dispatch has the
\* dispatch's attempt; without a transport error its retryable is the
\* provider's, capped by attempt < max_attempts; with a transport error its
\* status is failed and its retryable is attempt < max_attempts whatever the
\* provider's result carries; next_attempt is set exactly when it is retryable.
C30_StatusFromResult ==
    [][\A m \in BagToSet(calling), result \in ProviderResults,
          outcome \in {"ok", "commit_err", "release_err"} :
          CallWorkerFinishWith(m, result, outcome) =>
              \E st \in BagToSet(statusTopic'.log) :
                  /\ CopiesIn(st, statusTopic'.log) > CopiesIn(st, statusTopic.log)
                  /\ st.call_id = m.call_id
                  /\ st.attempt = m.attempt
                  /\ (st.next_attempt # <<>>) = st.retryable
                  /\ IF result.callErr
                     THEN /\ st.status = "failed"
                          /\ st.retryable = (m.attempt < m.max_attempts)
                     ELSE st.retryable = (result.retryable
                                          /\ m.attempt < m.max_attempts)]_vars

\* C31: the retry worker publishes the inner DispatchMessage of a RetryMessage
\* only at or after the message's next_attempt, which is the next_attempt the
\* call worker computed for the failed attempt.
C31_NotBeforeNextAttempt ==
    [][\A m \in BagToSet(retryTopic.queue), outcome \in RetryWorkerOutcomes :
          (RetryWorkerConsumeWith(m, outcome)
           /\ dispatchTopic'.log # dispatchTopic.log) =>
              /\ clock' >= m.next_attempt
              /\ \E st \in StatusLog :
                    /\ st.call_id = m.dispatch.call_id
                    /\ st.attempt + 1 = m.dispatch.attempt
                    /\ st.next_attempt = <<m.next_attempt>>]_vars

\* C31 witness: a retry whose next_attempt lay one tick ahead was republished,
\* the retry worker having slept until then.
C31_RepublishedAfterSleep ==
    /\ clock = 1
    /\ \E r \in BagToSet(retryTopic.committed), d \in DispatchLog :
          /\ r.next_attempt = 1
          /\ d.call_id = r.dispatch.call_id
          /\ d.attempt = r.dispatch.attempt

\* The fields of a DispatchMessage a retry hop is to leave as they are.
HopFields ==
    {"call_id", "campaign_id", "phone_number", "max_attempts", "retry_base_ms",
     "retry_max_ms", "retry_jitter", "concurrency_limit", "metadata"}

\* C32: the retry worker, given a RetryMessage, publishes exactly one
\* DispatchMessage, which has the call_id, campaign_id, phone_number,
\* max_attempts, retry_base_ms, retry_max_ms, retry_jitter, concurrency_limit
\* and metadata of the DispatchMessage of the failed attempt and an attempt one
\* higher.
C32_RetryHopKeepsFields ==
    [][\A m \in BagToSet(retryTopic.queue) :
          RetryWorkerConsumeWith(m, "ok") =>
              \E d \in BagToSet(dispatchTopic'.log), failed \in DispatchLog :
                  /\ dispatchTopic'.log = dispatchTopic.log (+) One(d)
                  /\ failed.call_id = d.call_id
                  /\ d.attempt = failed.attempt + 1
                  /\ \A f \in HopFields : d[f] = failed[f]]_vars

\* C33: within one scheduler tick an error while handling one in_progress
\* campaign (the load of its business hours, the fetch, the marking or the
\* trigger of its targets) is isolated: every other campaign returned for the
\* tick, handled without an error and with pending targets, has targets claimed
\* in the same tick.
C33_ErrorIsolated ==
    [][\A outcomes \in [Listed(ListByStatus(fleet, "in_progress", FetchLimit))
                           -> TickOutcomes] :
          SchedulerTickWith(outcomes) =>
              \A c \in DOMAIN outcomes :
                  (outcomes[c] = "ok" /\ fleet.rows[c].pending > 0) =>
                      fleet'.rows[c].pending < fleet.rows[c].pending]_vars

\* C35: under any interleaving of Acquire and Release calls on one campaign
\* key, also a Release with no matching Acquire or after the key expired, the
\* counter is never negative: Acquire with counter < L adds exactly 1, Acquire
\* with counter >= L leaves it unchanged, Release with counter <= 0 leaves the
\* key deleted (0) and Release with counter > 0 subtracts exactly 1; the call
\* worker holds a slot exactly when its Acquire added 1, and nothing but the
\* expiry of the key changes the counter by more than 1.
C35_CounterLaw ==
    /\ [](active >= 0)
    /\ [][/\ \A limit \in 1..MaxLimit :
                LimiterAcquire(limit) =>
                    active' = IF active < limit THEN active + 1 ELSE active
          /\ LimiterRelease =>
                active' = IF active <= 0 THEN 0 ELSE active - 1
          /\ held' = held + 1 => active' = active + 1
          /\ held' = held - 1 =>
                active' \in {IF active <= 0 THEN 0 ELSE active - 1, active}
          /\ active' # active =>
                \/ active' - active \in {-1, 1}
                \/ ttlLeft = 1 /\ active' = 0]_vars

\* C35 witness: two call workers held a slot each when the counter was gone
\* (the key expired, or other callers released it); one of them finished its
\* call and its Release found no counter to decrement.
C35_ReleasedWithoutCounter ==
    /\ active = 0
    /\ ttlLeft = 0
    /\ held = 1
    /\ leak = NoLeak
    /\ BagCardinality(calling) = 1
    /\ Cardinality(StatusLog) = 1
    /\ faults = 0

\* A round of a worker on a message that cannot be decoded.
PoisonStep == CallWorkerPoison \/ StatusWorkerPoison \/ RetryWorkerPoison

\* The offset of one more undecodable message of the topic is committed, and
\* the message is not delivered again.
PoisonCommitted(topic, topicAfter) ==
    /\ CopiesIn(PoisonMessage, topicAfter.committed)
           = CopiesIn(PoisonMessage, topic.committed) + 1
    /\ CopiesIn(PoisonMessage, topicAfter.queue)
           = CopiesIn(PoisonMessage, topic.queue) - 1

\* C34: in the call, status and retry workers a message whose payload cannot be
\* decoded has its offset committed (unless the commit itself fails) and causes
\* no slot acquisition, no store write and no publish, and the worker's loop
\* goes on to the next message; no error other than cancellation makes a
\* worker's loop return.
C34_PoisonCommittedAndSkipped ==
    [][/\ PoisonStep =>
             /\ faults' = faults =>
                   \/ PoisonCommitted(dispatchTopic, dispatchTopic')
                   \/ PoisonCommitted(statusTopic, statusTopic')
                   \/ PoisonCommitted(retryTopic, retryTopic')
             /\ active' = active /\ held' = held /\ ttlLeft' = ttlLeft
             /\ waiting' = waiting /\ calling' = calling
             /\ calls' = calls /\ call_attempts' = call_attempts
             /\ stats' = stats /\ targets' = targets
             /\ dispatchTopic'.log = dispatchTopic.log
             /\ statusTopic'.log = statusTopic.log
             /\ retryTopic'.log = retryTopic.log
             /\ loops' = loops
       /\ loops'.stopped # loops.stopped => loops.cancelled]_vars

\* C34 witness: an undecodable message was committed in each of the three
\* topics, and the call of the campaign went through the same workers to its
\* completion; every worker is still in its loop.
C34_PoisonSkippedCallCompleted ==
    /\ CopiesIn(PoisonMessage, dispatchTopic.committed) = 1
    /\ CopiesIn(PoisonMessage, statusTopic.committed) = 1
    /\ CopiesIn(PoisonMessage, retryTopic.committed) = 1
    /\ calls[1].status = "completed"
    /\ calls[1].attempt_count = 2
    /\ statusTopic.queue = EmptyBag
    /\ loops = AllRunning
    /\ faults = 0

\* min(base * 2^(a-1), max) over the integers.
ExpectedDelay(base, max, a) ==
    IF base * Pow2(a - 1) < max THEN base * Pow2(a - 1) ELSE max

C37_CompletedIsFinal ==
    [][/\ \A m \in BagToSet(statusTopic.queue), outcome \in StatusWorkerOutcomes :
             (StatusWorkerStep(m, outcome) /\ retryTopic'.log # retryTopic.log) =>
                 m.status = "failed"
       /\ \A c \in CallIDs :
             calls[c].status = "completed" => calls'[c].status = "completed"]_vars

\* C38: no target is stranded in state queued: whenever no tick is under way,
\* also after a scheduler crash or a failed state write at any point of a tick,
\* every target in state queued has a Call row and an attempt-1 DispatchMessage
\* published for it.
C38_NoTargetStranded ==
    (\A s \in Schedulers : sched[s].pc # "selected") =>
        \A t \in Targets :
            targets[t] = "queued" =>
                \E c \in CallIDs :
                    /\ calls[c].phone_number = t
                    /\ calls[c].status # "none"
                    /\ \E d \in DispatchLog : d.call_id = c /\ d.attempt = 1

\* C39: no in_progress campaign is starved by the scheduler: every in_progress
\* campaign with pending targets has some of them claimed by a later tick, also
\* when more campaigns are in_progress than one tick fetches.
C39_NoCampaignStarved ==
    \A c \in Campaigns :
        (fleet # NoFleet /\ fleet.rows[c].status = "in_progress"
                         /\ fleet.rows[c].pending > 0)
            ~> (fleet.rows[c].queued > 0)

\* C40: campaign operations that run concurrently do not lose each other's
\* writes: an Update never changes the status (it does not write back the
\* status it read before a concurrent Start or Complete committed), and Pause,
\* Complete and Update leave started_at as Start set it.
C40_NoLostLifecycleWrite ==
    [][\A o \in inflight :
          ApiCommit(o) =>
              /\ o.kind = "update" => campaign'.Status = campaign.Status
              /\ o.kind \in {"pause", "complete", "update"} =>
                     campaign'.StartedAt = campaign.StartedAt]_vars
====
